---------------------------- MODULE Spec2Model ----------------------------
(* A model of the agents-dashboard backend: the per-session state machine,   *)
(* the JSONL chunk parser, the file tailer, and the session registry of the  *)
(* claude_code provider with its event routing.                              *)
EXTENDS Integers, Sequences, FiniteSets, TLC

VARIABLES
    now,            \* wall clock, milliseconds (chrono::Utc::now().timestamp_millis())
    ctx,            \* state machine harness: the StateContext under test
    inp,            \* state machine harness: the entry last fed (or a marker)
    res,            \* state machine harness: the TransitionResult last returned
    sessions,       \* ClaudeCodeProvider.sessions: session id -> TrackedSession
    known_sessions, \* SessionDiscovery.known_sessions: the ids it holds
    removed_ids,    \* ids a DiscoveryEvent::Removed was sent for
    discovery_rx,   \* the discovery channel
    dtask,          \* the discovery handler task: where it stands
    watchers,       \* session id -> its FileWatcher: lines handed on, running
    entries_rx,     \* session id -> the entries channel of its FileWatcher
    consumers,      \* ids whose entries consumer task was spawned
    published,      \* every ProviderEvent sent on event_tx, in order
    routed,         \* how many of them the routing task of main has taken
    broadcast_tx,   \* every ServerEvent sent on broadcast_tx, in order
    message_tx,     \* every ServerEvent sent on message_tx, in order
    timer,          \* the timer task: the git probes that run, their answers to commit,
                    \* and whether the task has left its loop
    file,           \* tailer: the bytes of the log file
    offset,         \* tailer: read_new_content's offset
    remainder,      \* tailer: read_new_content's remainder
    applied,        \* every entry handle_entries was given, in order
    mapped,         \* every message map_entry returned to handle_entries, in order
    feed,           \* the record the log's writer repeats
    woke,           \* tailer: the fault met by the last wake, a bit that flips with each
                    \* wake, and how often the log was cut short
    log_root,       \* ~/.claude/projects: the .jsonl logs present, by session id
    ws_pc,          \* the connection: where ws_handler / handle_ws stands
    ws_rx,          \* the connection: frames of the client not read yet
    subscribed,     \* handle_ws: the main loop's subscription set
    sub_update_rx,  \* handle_ws: the SubUpdate channel to the filter task
    local_subs,     \* handle_ws: the filter task's subscription set
    client_rx,      \* handle_ws: the frames queued for the client
    ws_tx,          \* the connection: every frame sent to the client, in order
    broadcast_rx,   \* the connection's receiver on broadcast_tx: events taken
    message_rx,     \* the connection's receiver on message_tx: events taken
    peer,           \* the connection: the client's end of the socket
    fanout,         \* handle_ws: whether each of its two forwarding tasks runs
    lock_held,      \* ClaudeCodeProvider.sessions: the task that keeps its lock, if any
    stop_pc,        \* ClaudeCodeProvider::stop: where the call stands
    cumulative,     \* cost harness: the CumulativeUsage under test
    charged         \* cost harness: the model and usage last folded, with their cost

smVars == <<ctx, inp, res>>
regVars == <<sessions, known_sessions, removed_ids, discovery_rx, dtask, watchers,
             entries_rx, consumers, published, routed, broadcast_tx, message_tx, timer>>
tailVars == <<file, offset, remainder, applied, mapped, feed, woke>>
discVars == <<log_root>>
connVars == <<ws_pc, ws_rx, subscribed, sub_update_rx, local_subs, client_rx, ws_tx,
              broadcast_rx, message_rx, peer, fanout>>
ctlVars == <<lock_held, stop_pc>>
costVars == <<cumulative, charged>>
vars == <<now, smVars, regVars, tailVars, discVars, connVars, ctlVars, costVars>>

(***************************************************************************)
(* Option values: None is <<>>, Some(v) is <<v>>.                          *)
(***************************************************************************)
None == <<>>
Some(v) == <<v>>

\* The parts of the state a specification leaves out stay as they are here.
SMIdle == ctx = None /\ inp = None /\ res = None
RegIdle ==
    /\ sessions = <<>> /\ known_sessions = {} /\ removed_ids = {}
    /\ discovery_rx = <<>> /\ dtask = None /\ watchers = <<>> /\ entries_rx = <<>>
    /\ consumers = {} /\ published = <<>> /\ routed = 0
    /\ broadcast_tx = <<>> /\ message_tx = <<>> /\ timer = None
TailIdle ==
    /\ file = <<>> /\ offset = 0 /\ remainder = <<>>
    /\ applied = <<>> /\ mapped = <<>> /\ feed = None /\ woke = None
DiscIdle == log_root = <<>>
\* No task keeps the lock of the registry, and stop has not been called.
CtlIdle == lock_held = None /\ stop_pc = "idle"
CostIdle == cumulative = None /\ charged = None
ConnIdle ==
    /\ ws_pc = None /\ ws_rx = <<>> /\ subscribed = {} /\ sub_update_rx = <<>>
    /\ local_subs = {} /\ client_rx = <<>> /\ ws_tx = <<>>
    /\ broadcast_rx = 0 /\ message_rx = 0
    /\ peer = None /\ fanout = [broadcast |-> "none", message |-> "none"]

(***************************************************************************)
(* Time.  T0 is the earliest instant of the model; the other instants are  *)
(* T0 plus each timeout of state_machine.rs, so that every threshold is    *)
(* met exactly and missed.                                                 *)
(***************************************************************************)
PERMISSION_WAIT_TIMEOUT_MS == 30000
IDLE_TIMEOUT_MS == 10000
STOPPED_TIMEOUT_MS == 1800000
IDLE_STOPPED_TIMEOUT_MS == 1800000

T0 == 2000000

TimePoints ==
    {T0, T0 + IDLE_TIMEOUT_MS, T0 + PERMISSION_WAIT_TIMEOUT_MS, T0 + STOPPED_TIMEOUT_MS}

\* An entry's timestamp field after get_entry_timestamp: absent or unparsable
\* is None, otherwise the instant in milliseconds.
TsOpt == {None, Some(T0), Some(T0 + IDLE_TIMEOUT_MS)}

(***************************************************************************)
(* AgentStateType and StateContext (state_machine.rs).                     *)
(***************************************************************************)
AgentStateType == {"Running", "Idle", "PermissionWaiting", "Error", "Stopped"}

StateContext_new ==
    [state |-> "Stopped",
     last_activity_at |-> 0,
     last_assistant_tool_use |-> FALSE,
     last_assistant_text_only |-> FALSE,
     last_entry_timestamp |-> 0]

(***************************************************************************)
(* Raw entries (jsonl_parser.rs).  A string content is a sequence of       *)
(* tokens; the markers the state machine searches for are tokens or        *)
(* sequences of tokens, and no marker occurs inside another token, so      *)
(* substring search on tokens is substring search on the text.             *)
(***************************************************************************)
Tokens ==
    {"hi", "<command-name>", "/exit</command-name>",
     "<local-command-stdout>", "<local-command-caveat>"}

MaxContentLen == 2

RECURSIVE SeqsUpTo(_, _)
SeqsUpTo(S, n) ==
    IF n = 0 THEN {<<>>}
    ELSE LET shorter == SeqsUpTo(S, n - 1)
         IN shorter \cup {Append(s, x) : s \in {t \in shorter : Len(t) = n - 1}, x \in S}

Contents == SeqsUpTo(Tokens, MaxContentLen)

\* str::contains
Contains(s, pat) ==
    \E i \in 1..(Len(s) - Len(pat) + 1) : SubSeq(s, i, i + Len(pat) - 1) = pat

\* Every entry has the same fields; those that a kind does not carry are empty.
\*   str         User: the content is a JSON string (text) and not an array
\*   err         User with array content: its one tool_result block has is_error
\*   blocks      Assistant: the content blocks' types
\*   model       Assistant: message.model
\*   usage       Assistant: message.usage as <<input, output, cache_read, cache_creation>>
\*   cwd         User: cwd as its path segments
\*   git_branch  User, Assistant: gitBranch
\*   line        the number of the line of the log file the entry was parsed from
\*               (0 when it was built by a caller); no code reads it
Entry(kind, ts, str, text, err, blocks, subtype, model, usage) ==
    [kind |-> kind, ts |-> ts, str |-> str, text |-> text, err |-> err,
     blocks |-> blocks, subtype |-> subtype, model |-> model, usage |-> usage,
     cwd |-> None, git_branch |-> None, line |-> 0]

UserStr(text, ts) == Entry("User", ts, TRUE, text, FALSE, <<>>, None, None, None)
UserArr(err, ts) == Entry("User", ts, FALSE, <<>>, err, <<>>, None, None, None)
Assistant(blocks, model, usage, ts) ==
    Entry("Assistant", ts, FALSE, <<>>, FALSE, blocks, None, model, usage)
System(subtype, ts) == Entry("System", ts, FALSE, <<>>, FALSE, <<>>, subtype, None, None)
Progress(ts) == Entry("Progress", ts, FALSE, <<>>, FALSE, <<>>, None, None, None)
Other == Entry("Other", None, FALSE, <<>>, FALSE, <<>>, None, None, None)

\* A model name is its pricing prefix followed by the rest of the name.
Sonnet == <<"claude-sonnet", "-4">>
Opus == <<"claude-opus", "-4">>
Unknown == <<"unknown">>

Subtypes == {None, Some("turn_duration"), Some("init")}
BlockLists == {<<>>, <<"text">>, <<"tool_use">>, <<"thinking">>, <<"text", "tool_use">>}

SMEntries ==
    {UserStr(t, Some(T0)) : t \in Contents}
    \cup {UserArr(e, ts) : e \in BOOLEAN, ts \in TsOpt}
    \cup {Assistant(b, Some(Sonnet), None, ts) : b \in BlockLists, ts \in TsOpt}
    \cup {System(st, ts) : st \in Subtypes, ts \in TsOpt}
    \cup {Progress(ts) : ts \in TsOpt}
    \cup {Other}

(***************************************************************************)
(* state_machine.rs                                                        *)
(***************************************************************************)
has_tool_use_block(blocks) == \E i \in 1..Len(blocks) : blocks[i] = "tool_use"

\* Looks only at User entries: on every other kind the probe is false.
has_error_pattern(entry) == entry.kind = "User" /\ ~entry.str /\ entry.err

ExitMarker == <<"<command-name>", "/exit</command-name>">>

is_exit_command_entry(msg) == msg.str /\ Contains(msg.text, ExitMarker)

is_local_command_entry(msg) ==
    msg.str /\ (\/ Contains(msg.text, <<"<local-command-stdout>">>)
                \/ Contains(msg.text, <<"<local-command-caveat>">>)
                \/ Contains(msg.text, <<"<command-name>">>))

get_entry_timestamp(entry) == IF entry.kind = "Other" THEN None ELSE entry.ts

ClearFlags(c) ==
    [c EXCEPT !.last_assistant_tool_use = FALSE, !.last_assistant_text_only = FALSE]

\* The value every return of process_entry and check_time_based_transitions
\* builds: new_state is the state now held, changed compares it with the
\* state held on entry.
Transition(prev_state, c) ==
    [ctx |-> c, result |-> [new_state |-> c.state, changed |-> prev_state # c.state]]

NoTransition(c) ==
    [ctx |-> c, result |-> [new_state |-> c.state, changed |-> FALSE]]

\* process_entry, first step: adopt the entry's timestamp when it has one.
apply_entry_timestamp(c, entry) ==
    LET entry_ts == get_entry_timestamp(entry)
    IN  IF entry_ts # None
        THEN [c EXCEPT !.last_activity_at = entry_ts[1],
                       !.last_entry_timestamp = entry_ts[1]]
        ELSE c

\* process_entry, System entry with subtype turn_duration.
on_turn_duration(prev_state, c) ==
    Transition(prev_state, ClearFlags([c EXCEPT !.state = "Idle"]))

on_user_LocalFirst(prev_state, c, user_msg) ==
    IF is_local_command_entry(user_msg)
    THEN NoTransition(c)
    ELSE IF is_exit_command_entry(user_msg)
    THEN Transition(prev_state, ClearFlags([c EXCEPT !.state = "Stopped"]))
    ELSE Transition(prev_state, ClearFlags([c EXCEPT !.state = "Running"]))

\* process_entry, User entry.
on_user(prev_state, c, user_msg) ==
    IF is_exit_command_entry(user_msg)
    THEN Transition(prev_state, ClearFlags([c EXCEPT !.state = "Stopped"]))
    ELSE IF is_local_command_entry(user_msg)
    THEN NoTransition(c)
    ELSE Transition(prev_state, ClearFlags([c EXCEPT !.state = "Running"]))

on_assistant_KeepTextOnly(prev_state, c, entry) ==
    LET tu == has_tool_use_block(entry.blocks)
        c2 == [c EXCEPT !.state = "Running",
                        !.last_assistant_tool_use = tu,
                        !.last_assistant_text_only = ~tu \/ @]
        c3 == IF has_error_pattern(entry) THEN [c2 EXCEPT !.state = "Error"] ELSE c2
    IN  Transition(prev_state, c3)

\* process_entry, Assistant entry.
on_assistant(prev_state, c, entry) ==
    LET tu == has_tool_use_block(entry.blocks)
        c2 == [c EXCEPT !.state = "Running",
                        !.last_assistant_tool_use = tu,
                        !.last_assistant_text_only = ~tu]
        c3 == IF has_error_pattern(entry) THEN [c2 EXCEPT !.state = "Error"] ELSE c2
    IN  Transition(prev_state, c3)

on_progress_KeepState(prev_state, c) ==
    Transition(prev_state, ClearFlags(c))

on_progress_KeepFlags(prev_state, c) ==
    Transition(prev_state, [c EXCEPT !.state = "Running"])

\* process_entry, Progress entry.
on_progress(prev_state, c) ==
    Transition(prev_state, ClearFlags([c EXCEPT !.state = "Running"]))

\* process_entry(ctx, entry): the context afterwards and the result returned.
process_entry(c, entry) ==
    LET prev_state == c.state
        c1 == apply_entry_timestamp(c, entry)
    IN  IF entry.kind = "System" /\ entry.subtype = Some("turn_duration")
        THEN on_turn_duration(prev_state, c1)
        ELSE IF entry.kind = "User" THEN on_user(prev_state, c1, entry)
        ELSE IF entry.kind = "Assistant" THEN on_assistant(prev_state, c1, entry)
        ELSE IF entry.kind = "Progress" THEN on_progress(prev_state, c1)
        ELSE NoTransition(c1)

check_time_based_transitions_ToolUseFirst(c, t) ==
    LET prev_state == c.state
        elapsed == t - c.last_activity_at
    IN  IF c.state = "Running" /\ c.last_assistant_tool_use
           /\ elapsed >= PERMISSION_WAIT_TIMEOUT_MS
        THEN Transition(prev_state, [c EXCEPT !.state = "PermissionWaiting"])
        ELSE IF c.state = "Running" /\ c.last_assistant_text_only
                /\ elapsed >= IDLE_TIMEOUT_MS
        THEN Transition(prev_state,
                        [c EXCEPT !.state = "Idle", !.last_assistant_text_only = FALSE])
        ELSE IF elapsed >= STOPPED_TIMEOUT_MS /\ c.state = "Running"
        THEN Transition(prev_state, [c EXCEPT !.state = "Stopped"])
        ELSE IF elapsed >= IDLE_STOPPED_TIMEOUT_MS /\ c.state = "Idle"
        THEN Transition(prev_state, [c EXCEPT !.state = "Stopped"])
        ELSE NoTransition(c)

\* check_time_based_transitions(ctx) at wall clock t.
check_time_based_transitions(c, t) ==
    LET prev_state == c.state
        elapsed == t - c.last_activity_at
    IN  IF c.state = "Running" /\ c.last_assistant_text_only /\ elapsed >= IDLE_TIMEOUT_MS
        THEN Transition(prev_state,
                        [c EXCEPT !.state = "Idle", !.last_assistant_text_only = FALSE])
        ELSE IF c.state = "Running" /\ c.last_assistant_tool_use
                /\ elapsed >= PERMISSION_WAIT_TIMEOUT_MS
        THEN Transition(prev_state, [c EXCEPT !.state = "PermissionWaiting"])
        ELSE IF elapsed >= STOPPED_TIMEOUT_MS /\ c.state = "Running"
        THEN Transition(prev_state, [c EXCEPT !.state = "Stopped"])
        ELSE IF elapsed >= IDLE_STOPPED_TIMEOUT_MS /\ c.state = "Idle"
        THEN Transition(prev_state, [c EXCEPT !.state = "Stopped"])
        ELSE NoTransition(c)

(***************************************************************************)
(* The state machine on its own: a context, fed entries and ticked, as     *)
(* the unit tests of state_machine.rs do.                                  *)
(***************************************************************************)
NoInput == [kind |-> "none"]
Tick == [kind |-> "tick"]
NoResult == [new_state |-> "Stopped", changed |-> FALSE]

\* Any context a caller can build: the fields of StateContext are public and
\* the tests set them one by one.
AnyStateContext ==
    [state : AgentStateType,
     last_activity_at : {0} \cup TimePoints,
     last_assistant_tool_use : BOOLEAN,
     last_assistant_text_only : BOOLEAN,
     last_entry_timestamp : {0}]

InitSM ==
    /\ now = T0
    /\ ctx = StateContext_new
    /\ inp = NoInput
    /\ res = NoResult
    /\ RegIdle /\ TailIdle /\ DiscIdle /\ ConnIdle /\ CtlIdle /\ CostIdle

InitFn ==
    /\ now \in TimePoints
    /\ ctx \in AnyStateContext
    /\ inp = NoInput
    /\ res = NoResult
    /\ RegIdle /\ TailIdle /\ DiscIdle /\ ConnIdle /\ CtlIdle /\ CostIdle

SMProcessEntry ==
    \E entry \in SMEntries :
        LET r == process_entry(ctx, entry)
        IN  /\ ctx' = r.ctx
            /\ res' = r.result
            /\ inp' = entry
            /\ UNCHANGED <<now, regVars, tailVars, discVars, ctlVars, costVars, connVars>>

SMCheckTime ==
    LET r == check_time_based_transitions(ctx, now)
    IN  /\ ctx' = r.ctx
        /\ res' = r.result
        /\ inp' = Tick
        /\ UNCHANGED <<now, regVars, tailVars, discVars, ctlVars, costVars, connVars>>

SMAdvanceClock ==
    /\ \E t \in TimePoints : t > now /\ now' = t
    /\ inp' = NoInput
    /\ UNCHANGED <<ctx, res, regVars, tailVars, discVars, ctlVars, costVars, connVars>>

NextSM == SMProcessEntry \/ SMCheckTime \/ SMAdvanceClock

\* The state machine fed from StateContext::new().
SpecSM == InitSM /\ [][NextSM]_vars

\* The two functions applied to any context.
SpecFn == InitFn /\ [][NextSM]_vars

(***************************************************************************)
(* Claims about the state machine.                                         *)
(***************************************************************************)
IsEntry(x) == x.kind \in {"User", "Assistant", "System", "Progress", "Other"}

C9_EventTable ==
    [][IsEntry(inp') =>
        LET e == inp'
        IN  /\ res'.new_state = ctx'.state
            /\ res'.changed <=> (ctx'.state # ctx.state)
            /\ IF e.kind = "System" /\ e.subtype = Some("turn_duration")
               THEN ctx'.state = "Idle"
               ELSE IF e.kind = "Assistant" \/ e.kind = "Progress"
               THEN ctx'.state = "Running"
               ELSE IF e.kind = "User"
               THEN ctx'.state \in {"Stopped", "Running", ctx.state}
               ELSE ctx'.state = ctx.state /\ ~res'.changed
    ]_vars

\* A Progress entry brought an Idle session back to Running.
C9_Witness ==
    /\ inp.kind = "Progress"
    /\ ctx.state = "Running"
    /\ res = [new_state |-> "Running", changed |-> TRUE]

\* C10: a User entry with string content decides, from every prior state, in
\* this order: the /exit marker -> Stopped, flags cleared; else a local
\* command marker -> nothing changes, changed = FALSE; else -> Running, flags
\* cleared.
C10_UserStringPriority ==
    [][(inp'.kind = "User" /\ inp'.str) =>
        LET t == inp'.text
            exit == Contains(t, <<"<command-name>", "/exit</command-name>">>)
            local == \/ Contains(t, <<"<local-command-stdout>">>)
                     \/ Contains(t, <<"<local-command-caveat>">>)
                     \/ Contains(t, <<"<command-name>">>)
            cleared == ~ctx'.last_assistant_tool_use /\ ~ctx'.last_assistant_text_only
        IN  IF exit
            THEN ctx'.state = "Stopped" /\ cleared
            ELSE IF local
            THEN /\ ctx'.state = ctx.state
                 /\ ctx'.last_assistant_tool_use = ctx.last_assistant_tool_use
                 /\ ctx'.last_assistant_text_only = ctx.last_assistant_text_only
                 /\ ~res'.changed
            ELSE ctx'.state = "Running" /\ cleared
    ]_vars

\* An /exit entry (which also contains <command-name>) stopped the session.
C10_Witness ==
    /\ inp.kind = "User"
    /\ inp.str
    /\ Contains(inp.text, <<"<command-name>", "/exit</command-name>">>)
    /\ ctx.state = "Stopped"
    /\ res = [new_state |-> "Stopped", changed |-> TRUE]

Observed(x) == IF IsEntry(x) THEN get_entry_timestamp(x) ELSE None

\* C25: last_activity_at is at least the timestamp of every record observed
\* so far, whatever the order of the timestamps; in particular, after a
\* step, at least the timestamp of the record the step was given and of the
\* record given before it.
C25_LastActivityCoversTimestamps ==
    [][/\ Observed(inp') # None => ctx'.last_activity_at >= Observed(inp')[1]
       /\ Observed(inp) # None => ctx'.last_activity_at >= Observed(inp)[1]
    ]_vars

\* The two assistant flags of a context.
Flags(c) == <<c.last_assistant_tool_use, c.last_assistant_text_only>>

\* What the record entry does to the flags: "set" (from its blocks),
\* "clear" or "keep".
FlagRule(entry) ==
    IF entry.kind = "Assistant" THEN "set"
    ELSE IF entry.kind = "Progress" THEN "clear"
    ELSE IF entry.kind = "System"
    THEN (IF entry.subtype = Some("turn_duration") THEN "clear" ELSE "keep")
    ELSE IF entry.kind = "User"
    THEN (IF ~is_exit_command_entry(entry) /\ is_local_command_entry(entry)
          THEN "keep" ELSE "clear")
    ELSE "keep"

C31_Step ==
    IF IsEntry(inp')
    THEN LET rule == FlagRule(inp')
             tu == has_tool_use_block(inp'.blocks)
         IN  /\ rule = "set" => Flags(ctx') = <<tu, ~tu>>
             /\ rule = "clear" => Flags(ctx') = <<FALSE, FALSE>>
             /\ rule = "keep" => Flags(ctx') = Flags(ctx)
    ELSE /\ ctx'.last_assistant_tool_use => ctx.last_assistant_tool_use
         /\ ctx'.last_assistant_text_only => ctx.last_assistant_text_only

C31_NeverBoth == ~(ctx.last_assistant_tool_use /\ ctx.last_assistant_text_only)

\* C31: only a record sets an assistant flag: an Assistant record sets
\* exactly one of the two (tool-use iff it has a ToolUse block); a
\* turn_duration, an ordinary or exit User record and a Progress record
\* clear both; a local-command User record, an Other record and any other
\* System record keep both; a tick sets none; and the two flags are never
\* both true.
C31_FlagsByRecords == []C31_NeverBoth /\ [][C31_Step]_vars

\* An Assistant record with a ToolUse block was fed to a session that ran.
C31_Witness ==
    /\ inp.kind = "Assistant"
    /\ has_tool_use_block(inp.blocks)
    /\ ctx.last_assistant_tool_use /\ ~ctx.last_assistant_text_only
    /\ res = [new_state |-> "Running", changed |-> FALSE]

\* A record that carries a tool_result with is_error = true.
ErrorRecord(x) == IsEntry(x) /\ x.kind = "User" /\ ~x.str /\ x.err

\* C32: a User record whose array content holds a tool_result with
\* is_error = true leaves the state Error, and no other record, of any
\* kind, moves the state to Error.
C32_ErrorFromUserToolResult ==
    /\ [](ErrorRecord(inp) => ctx.state = "Error")
    /\ [][ctx.state # "Error" /\ ctx'.state = "Error" => ErrorRecord(inp')]_vars

(***************************************************************************)
(* cost.rs.  Prices are the table's dollars per million tokens times 100,  *)
(* so that every price is an integer; a cost is then a whole number of     *)
(* 1e-8 dollars.                                                           *)
(***************************************************************************)
MODEL_PRICING ==
    <<[prefix |-> "claude-opus", input |-> 1500, output |-> 7500,
       cache_read |-> 150, cache_creation |-> 1875],
      [prefix |-> "claude-sonnet", input |-> 300, output |-> 1500,
       cache_read |-> 30, cache_creation |-> 375],
      [prefix |-> "claude-haiku", input |-> 80, output |-> 400,
       cache_read |-> 8, cache_creation |-> 100]>>

\* str::starts_with on a model name held as <<prefix, rest>>.
starts_with(model, prefix) == model[1] = prefix

get_pricing_OpusDefault(model) ==
    LET hits == {i \in 1..Len(MODEL_PRICING) : starts_with(model, MODEL_PRICING[i].prefix)}
    IN  IF hits = {} THEN MODEL_PRICING[1]
        ELSE MODEL_PRICING[CHOOSE i \in hits : \A j \in hits : i <= j]

get_pricing(model) ==
    LET hits == {i \in 1..Len(MODEL_PRICING) : starts_with(model, MODEL_PRICING[i].prefix)}
    IN  IF hits = {} THEN MODEL_PRICING[2]
        ELSE MODEL_PRICING[CHOOSE i \in hits : \A j \in hits : i <= j]

calculate_cost(model, u) ==
    LET pricing == get_pricing(model)
    IN  u[1] * pricing.input + u[2] * pricing.output
        + u[3] * pricing.cache_read + u[4] * pricing.cache_creation

CumulativeUsage_default ==
    [input_tokens |-> 0, output_tokens |-> 0, cache_read_tokens |-> 0,
     cache_creation_tokens |-> 0, estimated_cost |-> 0]

\* The token counts are u64.  The model holds them in 12 bits instead of
\* 64: a count is below U64_MODULUS, and + on two counts wraps there in a
\* build without overflow checks (release) and panics in one with them
\* (debug).
U64_MODULUS == 4096

wrapping_add(a, b) == (a + b) % U64_MODULUS

add_usage(current, model, u) ==
    [input_tokens |-> wrapping_add(current.input_tokens, u[1]),
     output_tokens |-> wrapping_add(current.output_tokens, u[2]),
     cache_read_tokens |-> wrapping_add(current.cache_read_tokens, u[3]),
     cache_creation_tokens |-> wrapping_add(current.cache_creation_tokens, u[4]),
     estimated_cost |-> current.estimated_cost + calculate_cost(model, u)]

\* One of the four sums of add_usage does not fit.
overflows(current, u) ==
    \/ current.input_tokens + u[1] >= U64_MODULUS
    \/ current.output_tokens + u[2] >= U64_MODULUS
    \/ current.cache_read_tokens + u[3] >= U64_MODULUS
    \/ current.cache_creation_tokens + u[4] >= U64_MODULUS

(***************************************************************************)
(* cost.rs on its own: usages folded into a CumulativeUsage, as the unit   *)
(* tests of cost.rs do.  Model names are <<first part, rest>>; "gpt-4" and *)
(* "unknown" start with no prefix of the table.                            *)
(***************************************************************************)
MaxFolds == 2

ModelNames == {Opus, Sonnet, <<"claude-haiku", "-3">>, Unknown, <<"gpt-4">>}

UsageTuples ==
    {<<i, o, r, c>> : i \in {0, 1, U64_MODULUS - 1}, o \in {0, 2}, r \in {0, 3}, c \in {0, 5}}

Charged(model, u, folds, panicked) ==
    [model |-> model, u |-> u, cost |-> calculate_cost(model, u), folds |-> folds,
     panicked |-> panicked]

InitCost ==
    /\ now = T0
    /\ cumulative = CumulativeUsage_default
    /\ charged = Charged(Unknown, <<0, 0, 0, 0>>, 0, FALSE)
    /\ SMIdle /\ RegIdle /\ TailIdle /\ DiscIdle /\ ConnIdle /\ CtlIdle

\* add_usage is called with the usage of one more record.  With overflow
\* checks a sum that does not fit panics and the caller's value stays.
CostFold ==
    \E model \in ModelNames, u \in UsageTuples, overflow_checks \in BOOLEAN :
        /\ charged.folds < MaxFolds
        /\ ~charged.panicked
        /\ IF overflow_checks /\ overflows(cumulative, u)
           THEN /\ cumulative' = cumulative
                /\ charged' = Charged(model, u, charged.folds + 1, TRUE)
           ELSE /\ cumulative' = add_usage(cumulative, model, u)
                /\ charged' = Charged(model, u, charged.folds + 1, FALSE)
        /\ UNCHANGED <<now, smVars, regVars, tailVars, discVars, connVars, ctlVars>>

NextCost == CostFold

SpecCost == InitCost /\ [][NextCost]_vars

(***************************************************************************)
(* Claims about the cost.                                                  *)
(***************************************************************************)
\* C27: every component of a cumulative usage, the four token counts and
\* the estimated cost, is at least what it was before a usage was folded.
C27_UsageMonotone ==
    [][/\ cumulative'.input_tokens >= cumulative.input_tokens
       /\ cumulative'.output_tokens >= cumulative.output_tokens
       /\ cumulative'.cache_read_tokens >= cumulative.cache_read_tokens
       /\ cumulative'.cache_creation_tokens >= cumulative.cache_creation_tokens
       /\ cumulative'.estimated_cost >= cumulative.estimated_cost
    ]_vars

\* The row of the pricing table for a model name, in hundredths of a dollar
\* per million tokens: input, output, cache read, cache creation.
PriceRow(model) ==
    IF model[1] = "claude-opus" THEN <<1500, 7500, 150, 1875>>
    ELSE IF model[1] = "claude-haiku" THEN <<80, 400, 8, 100>>
    ELSE <<300, 1500, 30, 375>>

CostByRow(model, u) ==
    u[1] * PriceRow(model)[1] + u[2] * PriceRow(model)[2]
    + u[3] * PriceRow(model)[3] + u[4] * PriceRow(model)[4]

\* C28: the cost of a usage is the sum of its four counts times the prices
\* of the row whose prefix the model name starts with, the claude-sonnet row
\* when it starts with none; and the cost of the sum of two usages of one
\* model is the sum of their costs.  (Costs are in units of 1e-8 dollars,
\* which takes the division by 1,000,000 and the cents out of the prices.)
C28_Cost == charged.cost = CostByRow(charged.model, charged.u)

C28_Additive ==
    charged'.model = charged.model =>
        calculate_cost(charged.model,
                       <<charged.u[1] + charged'.u[1], charged.u[2] + charged'.u[2],
                         charged.u[3] + charged'.u[3], charged.u[4] + charged'.u[4]>>)
            = charged.cost + charged'.cost

AgentMessage(role, msg_type, content, line) ==
    [role |-> role, msg_type |-> msg_type, content |-> content, line |-> line]

truncate(text, max_len) == text

map_user_message(entry) ==
    IF entry.str
    THEN <<AgentMessage("User", "Text", truncate(entry.text, 500), entry.line)>>
    ELSE <<AgentMessage("User", "ToolResult", truncate(<<"result">>, 300), entry.line)>>

RECURSIVE map_blocks(_, _)
map_blocks(blocks, line) ==
    IF blocks = <<>> THEN <<>>
    ELSE LET rest == map_blocks(Tail(blocks), line)
         IN  IF Head(blocks) = "text"
             THEN <<AgentMessage("Assistant", "Text", <<"hi">>, line)>> \o rest
             ELSE IF Head(blocks) = "tool_use"
             THEN <<AgentMessage("Assistant", "ToolUse", <<"Bash">>, line)>> \o rest
             ELSE rest

map_assistant_message(entry) == map_blocks(entry.blocks, entry.line)

map_entry(entry) ==
    IF entry.kind = "User" THEN map_user_message(entry)
    ELSE IF entry.kind = "Assistant" THEN map_assistant_message(entry)
    ELSE IF entry.kind = "System" /\ entry.subtype = Some("turn_duration")
    THEN <<AgentMessage("System", "StateChange", <<"Turn completed">>, entry.line)>>
    ELSE <<>>

\* strip_system_xml_tags on a token sequence.  Of SYSTEM_XML_TAGS, the tokens
\* hold the opening tags of local-command-caveat, local-command-stdout and
\* command-name, and one closing tag, that of command-name, at the end of
\* the token "/exit</command-name>".
SYSTEM_XML_TAGS == <<"local-command-caveat", "local-command-stdout", "command-name">>

IsOpen(tok, tag) ==
    \/ tag = "local-command-caveat" /\ tok = "<local-command-caveat>"
    \/ tag = "local-command-stdout" /\ tok = "<local-command-stdout>"
    \/ tag = "command-name" /\ tok = "<command-name>"

HasClose(tok, tag) == tag = "command-name" /\ tok = "/exit</command-name>"

\* The first of the positions hits at which a pattern matches; 0 when there
\* is none (str::find).
FirstAt(hits) ==
    IF hits = {} THEN 0 ELSE CHOOSE i \in hits : \A j \in hits : i <= j

RECURSIVE strip_tag(_, _)
strip_tag(text, tag) ==
    LET Open(tok) == IsOpen(tok, tag)
        Close(tok) == HasClose(tok, tag)
        start == FirstAt({i \in 1..Len(text) : Open(text[i])})
        end == IF start = 0 THEN 0
               ELSE FirstAt({i \in start..Len(text) : Close(text[i])})
    IN  IF start = 0 \/ end = 0 THEN text
        ELSE strip_tag(SubSeq(text, 1, start - 1) \o SubSeq(text, end + 1, Len(text)), tag)

RECURSIVE strip_tags(_, _)
strip_tags(text, tags) ==
    IF tags = <<>> THEN text ELSE strip_tags(strip_tag(text, Head(tags)), Tail(tags))

strip_system_xml_tags(text) == strip_tags(text, SYSTEM_XML_TAGS)

\* extract_session_metadata(...).2, the current task.
extract_current_task(entry) ==
    IF entry.str THEN truncate(strip_system_xml_tags(entry.text), 200) ELSE <<>>

extract_model(entry) == IF entry.model = None THEN Unknown ELSE entry.model[1]

extract_usage(entry) == entry.usage

(***************************************************************************)
(* providers/mod.rs: ProviderEvent.  Every event has the same fields; the  *)
(* ones its kind does not carry are empty.  line is the log line of the    *)
(* entry whose handling published the event (0: no entry did).             *)
(***************************************************************************)
ProviderEvent(type, session_id, previous, current, payload, line) ==
    [type |-> type, session_id |-> session_id, previous |-> previous,
     current |-> current, payload |-> payload, line |-> line]

SessionDiscovered(summary, line) ==
    ProviderEvent("SessionDiscovered", summary.session_id, "", "", <<summary>>, line)
SessionRemoved(session_id) ==
    ProviderEvent("SessionRemoved", session_id, "", "", <<>>, 0)
StateChanged(session_id, previous, current, line) ==
    ProviderEvent("StateChanged", session_id, previous, current, <<>>, line)
NewMessage(session_id, message) ==
    ProviderEvent("NewMessage", session_id, "", "", <<message>>, message.line)
UsageUpdated(session_id, usage, line) ==
    ProviderEvent("UsageUpdated", session_id, "", "", <<usage>>, line)
GitStatusUpdated(session_id, git_status) ==
    ProviderEvent("GitStatusUpdated", session_id, "", "", <<git_status>>, 0)

(***************************************************************************)
(* providers/claude_code/mod.rs: TrackedSession and handle_entries.        *)
(* Timestamps the summary holds as RFC 3339 text are held in milliseconds. *)
(***************************************************************************)
GitStatus_default == [branch |-> "", additions |-> 0, deletions |-> 0]

\* decode_project_path on a directory name held as tokens, "-" among them.
ReplaceDash(encoded) ==
    [i \in 1..Len(encoded) |-> IF encoded[i] = "-" THEN "/" ELSE encoded[i]]

decode_project_path(encoded) ==
    IF encoded # <<>> /\ Head(encoded) = "-"
    THEN <<"/">> \o ReplaceDash(Tail(encoded))
    ELSE ReplaceDash(encoded)

\* path.split('/').last(): the tokens after the last "/".
last_segment(path) ==
    LET slashes == {i \in 1..Len(path) : path[i] = "/"}
        from == IF slashes = {} THEN 0 ELSE CHOOSE i \in slashes : \A j \in slashes : j <= i
    IN  SubSeq(path, from + 1, Len(path))

\* scan_all_inner: the DiscoveredSession of a log file found in a directory.
\* log_file stands for the file at that path: the lines its writer writes.
DiscoveredSession(session_id, dir_name, log_file) ==
    [session_id |-> session_id,
     log_file |-> log_file,
     project_path |-> decode_project_path(dir_name),
     project_name |-> last_segment(decode_project_path(dir_name))]

\* handle_session_found: the session as inserted.
TrackedSession(discovered, t) ==
    [summary |-> [session_id |-> discovered.session_id,
                  state |-> "Stopped",
                  project_path |-> discovered.project_path,
                  project_name |-> discovered.project_name,
                  working_directory |-> discovered.project_path,
                  current_task |-> <<>>,
                  model |-> Unknown,
                  last_activity_at |-> t,
                  started_at |-> t,
                  cumulative_usage |-> CumulativeUsage_default,
                  git_status |-> GitStatus_default],
     messages |-> <<>>,
     state_ctx |-> StateContext_new,
     model |-> Unknown,
     emitted |-> FALSE,
     last_git_diff_check |-> 0,
     discovery_project_path |-> discovered.project_path]

MessagesCap == 500
MessagesKeep == 400

push_message_KeepOldest(messages, msg) ==
    LET pushed == Append(messages, msg)
    IN  IF Len(pushed) > MessagesCap
        THEN SubSeq(pushed, 1, MessagesKeep)
        ELSE pushed

\* handle_entries: messages.push(msg) and the drain that follows it.
push_message(messages, msg) ==
    LET pushed == Append(messages, msg)
    IN  IF Len(pushed) > MessagesCap
        THEN LET drain_count == Len(pushed) - MessagesKeep
             IN  SubSeq(pushed, drain_count + 1, Len(pushed))
        ELSE pushed

\* A step of handle_entries works on acc = [s |-> the session, ev |-> the
\* events sent so far].
Send(acc, when, event) == IF when THEN [acc EXCEPT !.ev = Append(@, event)] ELSE acc

SetBranch(acc, entry) ==
    IF entry.git_branch # None /\ entry.git_branch[1] # "" /\ entry.git_branch[1] # "HEAD"
    THEN [acc EXCEPT !.s.summary.git_status.branch = entry.git_branch[1]]
    ELSE acc

\* handle_entries, "Extract metadata from user messages".
user_metadata(acc, entry) ==
    LET a1 == IF entry.cwd # None
              THEN LET cwd == entry.cwd[1]
                       a0 == [acc EXCEPT !.s.summary.working_directory = cwd]
                       a00 == IF last_segment(cwd) # <<>>
                              THEN [a0 EXCEPT !.s.summary.project_name = last_segment(cwd)]
                              ELSE a0
                   IN  [a00 EXCEPT !.s.summary.project_path = cwd]
              ELSE acc
        a2 == IF a1.s.summary.current_task = <<>>
              THEN LET a10 == [a1 EXCEPT !.s.summary.current_task =
                                              extract_current_task(entry)]
                   IN  IF entry.ts # None
                       THEN [a10 EXCEPT !.s.summary.started_at = entry.ts[1]]
                       ELSE a10
              ELSE a1
    IN  SetBranch(a2, entry)

\* handle_entries, "Extract git branch and model from assistant messages"
\* and "Update usage".
assistant_metadata(acc, entry) ==
    LET a1 == SetBranch(acc, entry)
        model == extract_model(entry)
        a2 == IF model # Unknown
              THEN LET was_unknown == a1.s.model = Unknown
                       a10 == [a1 EXCEPT !.s.model = model, !.s.summary.model = model]
                   IN  IF was_unknown /\ ~a10.s.emitted
                       THEN LET a11 == [a10 EXCEPT !.s.emitted = TRUE]
                            IN  Send(a11, TRUE, SessionDiscovered(a11.s.summary, entry.line))
                       ELSE a10
              ELSE a1
        usage == extract_usage(entry)
    IN  IF usage # None
        THEN LET a20 == [a2 EXCEPT !.s.summary.cumulative_usage =
                                       add_usage(@, a2.s.model, usage[1])]
             IN  Send(a20, a20.s.emitted,
                      UsageUpdated(a20.s.summary.session_id,
                                   a20.s.summary.cumulative_usage, entry.line))
        ELSE a2

entry_state_NoSync(acc, entry) ==
    LET prev_state == acc.s.state_ctx.state
        r == process_entry(acc.s.state_ctx, entry)
        a1 == [acc EXCEPT !.s.state_ctx = r.ctx]
    IN  IF r.result.changed
        THEN LET a2 == [a1 EXCEPT !.s.summary.last_activity_at = r.ctx.last_entry_timestamp]
             IN  Send(a2, a2.s.emitted,
                      StateChanged(a2.s.summary.session_id, prev_state, r.ctx.state,
                                   entry.line))
        ELSE a1

\* handle_entries, "Process state machine".
entry_state(acc, entry) ==
    LET prev_state == acc.s.state_ctx.state
        r == process_entry(acc.s.state_ctx, entry)
        a1 == [acc EXCEPT !.s.state_ctx = r.ctx]
    IN  IF r.result.changed
        THEN LET a2 == [a1 EXCEPT !.s.summary.state = r.ctx.state,
                                  !.s.summary.last_activity_at = r.ctx.last_entry_timestamp]
             IN  Send(a2, a2.s.emitted,
                      StateChanged(a2.s.summary.session_id, prev_state, r.ctx.state,
                                   entry.line))
        ELSE a1

\* handle_entries, "Map to AgentMessages".
RECURSIVE entry_messages(_, _)
entry_messages(acc, messages) ==
    IF messages = <<>> THEN acc
    ELSE LET msg == Head(messages)
             a1 == [acc EXCEPT !.s.messages = push_message(@, msg)]
             a2 == Send(a1, a1.s.emitted, NewMessage(a1.s.summary.session_id, msg))
         IN  entry_messages(a2, Tail(messages))

\* handle_entries, the body of "for entry in &entries".
handle_entry(acc, entry) ==
    LET a1 == IF entry.kind = "User" THEN user_metadata(acc, entry) ELSE acc
        a2 == IF entry.kind = "Assistant" THEN assistant_metadata(a1, entry) ELSE a1
        a3 == entry_state(a2, entry)
    IN  entry_messages(a3, map_entry(entry))

RECURSIVE handle_each_LastFirst(_, _)
handle_each_LastFirst(acc, entries) ==
    IF entries = <<>> THEN acc
    ELSE handle_entry(handle_each_LastFirst(acc, Tail(entries)), Head(entries))

RECURSIVE handle_each(_, _)
handle_each(acc, entries) ==
    IF entries = <<>> THEN acc
    ELSE handle_each(handle_entry(acc, Head(entries)), Tail(entries))

post_batch_check_Always(acc, t) ==
    LET a1 == [acc EXCEPT !.s.summary.last_activity_at = acc.s.state_ctx.last_entry_timestamp]
        prev_state == a1.s.state_ctx.state
        r == check_time_based_transitions(a1.s.state_ctx, t)
        a2 == [a1 EXCEPT !.s.state_ctx = r.ctx]
    IN  Send([a2 EXCEPT !.s.summary.state = r.ctx.state], a2.s.emitted,
             StateChanged(a2.s.summary.session_id, prev_state, r.ctx.state, 0))

\* handle_entries, the time-based check after the loop.
post_batch_check(acc, t) ==
    LET a1 == [acc EXCEPT !.s.summary.last_activity_at = acc.s.state_ctx.last_entry_timestamp]
        prev_state == a1.s.state_ctx.state
        r == check_time_based_transitions(a1.s.state_ctx, t)
        a2 == [a1 EXCEPT !.s.state_ctx = r.ctx]
    IN  IF r.result.changed
        THEN Send([a2 EXCEPT !.s.summary.state = r.ctx.state], a2.s.emitted,
                  StateChanged(a2.s.summary.session_id, prev_state, r.ctx.state, 0))
        ELSE a2

\* handle_entries on a session that is tracked: the session afterwards and
\* the events sent, in order.
handle_entries(session, entries, t) ==
    post_batch_check(handle_each([s |-> session, ev |-> <<>>], entries), t)

(***************************************************************************)
(* Inputs of the registry: session ids, project directories as             *)
(* scan_all_inner reads their names, and the lines a log's writer appends. *)
(***************************************************************************)
SessionIds == {"s1", "s2"}
Dirs == {<<"-", "w", "-", "p1">>, <<"-", "w", "-", "p2">>}
MaxBatch == 2

\* entries as the tailer hands them on: numbered by their line in the log.
Numbered(entries, from) ==
    [i \in 1..Len(entries) |-> [entries[i] EXCEPT !.line = from + i]]

RECURSIVE MapAll(_)
MapAll(entries) ==
    IF entries = <<>> THEN <<>> ELSE map_entry(Head(entries)) \o MapAll(Tail(entries))

(***************************************************************************)
(* The message list of one tracked session whose log grows by one kind of  *)
(* line: a user prompt (one message a line) or an assistant turn with a    *)
(* text and a tool_use block (two messages a line).                        *)
(***************************************************************************)
MsgsMaxLines == 610

MsgFeeds ==
    {UserStr(<<"hi">>, Some(T0)),
     Assistant(<<"text", "tool_use">>, Some(Sonnet), None, Some(T0))}

InitMsgs ==
    /\ now = T0
    /\ SMIdle /\ DiscIdle /\ ConnIdle /\ CtlIdle /\ CostIdle
    /\ \E dir \in Dirs :
           sessions = ("s1" :> TrackedSession(DiscoveredSession("s1", dir, <<>>), T0))
    /\ known_sessions = {"s1"}
    /\ removed_ids = {}
    /\ discovery_rx = <<>>
    /\ dtask = None
    /\ watchers = ("s1" :> [file_path |-> <<>>, pos |-> 0, running |-> TRUE])
    /\ entries_rx = ("s1" :> <<>>)
    /\ consumers = {"s1"}
    /\ published = <<>> /\ routed = 0 /\ broadcast_tx = <<>> /\ message_tx = <<>>
    /\ timer = None
    /\ file = <<>> /\ offset = 0 /\ remainder = <<>> /\ applied = <<>>
    /\ mapped = <<>>
    /\ feed \in MsgFeeds
    /\ woke = None

\* The tailer hands on the next lines and the consumer task gives them to
\* handle_entries.
MsgsIngest ==
    \E n \in 1..MaxBatch :
        LET pos == watchers["s1"].pos
            batch == Numbered([i \in 1..n |-> feed], pos)
            r == handle_entries(sessions["s1"], batch, now)
        IN  /\ pos + n <= MsgsMaxLines
            /\ sessions' = [sessions EXCEPT !["s1"] = r.s]
            /\ published' = published \o r.ev
            /\ watchers' = [watchers EXCEPT !["s1"].pos = pos + n]
            /\ mapped' = mapped \o MapAll(batch)
            /\ UNCHANGED <<now, smVars, discVars, ctlVars, costVars, connVars, known_sessions, removed_ids, discovery_rx, dtask,
                           entries_rx, consumers, routed, broadcast_tx, message_tx, timer,
                           file, offset, remainder, applied, feed, woke>>

NextMsgs == MsgsIngest

SpecMsgs == InitMsgs /\ [][NextMsgs]_vars

\* C7: a session's message list never holds more than 500 messages; it is
\* always the newest messages mapped for the session, in record order: all
\* of them up to 500, and at least 400 of them afterwards; and the append
\* that takes a list of 500 to 501 leaves the newest 400, dropping the
\* oldest 101 in that one step.
C7_Retained ==
    LET m == sessions["s1"].messages
        total == Len(mapped)
    IN  /\ Len(m) <= 500
        /\ m = SubSeq(mapped, total - Len(m) + 1, total)
        /\ total <= 500 => Len(m) = total
        /\ total > 500 => Len(m) >= 400

C7_DropStep ==
    LET m == sessions["s1"].messages
    IN  (Len(m) = 500 /\ Len(mapped') = Len(mapped) + 1)
            => sessions'["s1"].messages = SubSeq(mapped', Len(mapped') - 399, Len(mapped'))

C7_MessageListBounded == C7_Retained /\ [][C7_Retained' /\ C7_DropStep]_vars

C7_Witness ==
    /\ Len(mapped) = 501
    /\ Len(sessions["s1"].messages) = 400

(***************************************************************************)
(* The registry: ClaudeCodeProvider with its discovery handler task, one   *)
(* file watcher and one entries consumer task a session, the timer task    *)
(* with its git probes, and the routing task of main.  A log is read here  *)
(* line by line as entries; the bytes of a log are the tailer's, below.    *)
(***************************************************************************)
MaxQueued == 1
MaxLines == 3
GIT_DIFF_INTERVAL_MS == 30000

RegTimes == {T0, T0 + PERMISSION_WAIT_TIMEOUT_MS}

Usage1 == <<10, 5, 0, 0>>

\* The logs found: a prompt, an assistant turn that asks for a tool and the
\* end of the turn; or one assistant turn of text.
Logs ==
    {<<UserStr(<<"hi">>, Some(T0)),
       Assistant(<<"tool_use">>, Some(Sonnet), Some(Usage1), Some(T0)),
       System(Some("turn_duration"), Some(T0))>>,
     <<Assistant(<<"text">>, Some(Opus), Some(Usage1), Some(T0))>>}

\* fetch_git_diff_stats: no answer, or (additions, deletions).
GitOutcomes == {None, Some(<<0, 0>>), Some(<<1, 0>>)}

\* The orders in which a HashMap hands out the keys in S.
Orders(S) ==
    {o \in [1..Cardinality(S) -> S] : \A i, j \in 1..Cardinality(S) : o[i] = o[j] => i = j}

Found(d) == [type |-> "Found", session_id |-> d.session_id, d |-> d]
Removed(session_id) == [type |-> "Removed", session_id |-> session_id, d |-> None]

\* The lines read so far, over all logs.
TotalLines ==
    LET RECURSIVE Sum(_)
        Sum(S) == IF S = {} THEN 0
                  ELSE LET id == CHOOSE x \in S : TRUE
                       IN  watchers[id].pos + Sum(S \ {id})
    IN  Sum(DOMAIN watchers)

\* The channels are unbounded; the model lets a sender act while few events
\* wait in its channel.
CanPublish == Len(published) - routed < MaxQueued
CanSend(channel) == Len(channel) < MaxQueued

Publish(events) == published' = published \o events

\* A task takes the lock of the registry (sessions.read() / sessions.write())
\* when no task keeps it over a wait.
LockFree == lock_held = None

guard_after_loop_Kept(targets) == IF targets # {} THEN Some("timer") ELSE None

\* check_timers: the write guard is dropped at the end of the block of the
\* loop, before the probes are spawned and awaited.
guard_after_loop(targets) == None

Init ==
    /\ now = T0
    /\ SMIdle /\ DiscIdle /\ ConnIdle /\ CtlIdle /\ CostIdle
    /\ sessions = <<>>
    /\ known_sessions = {}
    /\ removed_ids = {}
    /\ discovery_rx = <<>>
    /\ dtask = [pc |-> "recv", d |-> None]
    /\ watchers = <<>>
    /\ entries_rx = <<>>
    /\ consumers = {}
    /\ published = <<>>
    /\ routed = 0
    /\ broadcast_tx = <<>>
    /\ message_tx = <<>>
    /\ timer = [probes |-> {}, answers |-> {}, exited |-> FALSE]
    /\ TailIdle

\* scan_all_inner finds a log file it does not know.  Session ids are names
\* only: the first log found is called "s1", the second "s2"; the first lies
\* in the first directory.
Discover ==
    \E session_id \in SessionIds \ known_sessions, dir_name \in Dirs, log_file \in Logs :
        /\ CanSend(discovery_rx)
        /\ stop_pc \in {"idle", "signalled"}
        /\ session_id = "s2" => "s1" \in known_sessions
        /\ session_id = "s1" => dir_name = <<"-", "w", "-", "p1">>
        /\ known_sessions' = known_sessions \cup {session_id}
        /\ discovery_rx' = Append(discovery_rx,
                                  Found(DiscoveredSession(session_id, dir_name, log_file)))
        /\ UNCHANGED <<now, smVars, discVars, ctlVars, costVars, connVars, tailVars, sessions, removed_ids, dtask, watchers,
                       entries_rx, consumers, published, routed, broadcast_tx, message_tx,
                       timer>>

\* A DiscoveryEvent::Removed arrives on the discovery channel.  The scan of
\* session_discovery.rs sends none; the handler of ClaudeCodeProvider::start
\* is the channel's receiver and takes any the channel's type allows, for a
\* session it tracks or for one it does not (here: at most one per id).
FileRemoved ==
    \E session_id \in SessionIds \ removed_ids :
        /\ CanSend(discovery_rx)
        /\ removed_ids' = removed_ids \cup {session_id}
        /\ discovery_rx' = Append(discovery_rx, Removed(session_id))
        /\ UNCHANGED <<now, smVars, discVars, ctlVars, costVars, connVars, tailVars, sessions, known_sessions, dtask, watchers,
                       entries_rx, consumers, published, routed, broadcast_tx, message_tx,
                       timer>>

IsActive(state) == state \in {"Running", "Idle", "PermissionWaiting", "Error"}

RECURSIVE stop_older_AnyProject(_, _, _)
stop_older_AnyProject(acc, order, discovered) ==
    IF order = <<>> THEN acc
    ELSE LET sid == Head(order)
             session == acc.ss[sid]
         IN  IF sid # discovered.session_id /\ IsActive(session.state_ctx.state)
             THEN LET prev == session.state_ctx.state
                      stopped == [session EXCEPT !.state_ctx.state = "Stopped",
                                                 !.summary.state = "Stopped"]
                  IN  stop_older_AnyProject(
                          [ss |-> [acc.ss EXCEPT ![sid] = stopped],
                           ev |-> IF session.emitted
                                  THEN Append(acc.ev, StateChanged(sid, prev, "Stopped", 0))
                                  ELSE acc.ev],
                          Tail(order), discovered)
             ELSE stop_older_AnyProject(acc, Tail(order), discovered)

RECURSIVE stop_older_Silent(_, _, _)
stop_older_Silent(acc, order, discovered) ==
    IF order = <<>> THEN acc
    ELSE LET sid == Head(order)
             session == acc.ss[sid]
         IN  IF /\ session.discovery_project_path = discovered.project_path
                /\ sid # discovered.session_id
                /\ IsActive(session.state_ctx.state)
             THEN LET stopped == [session EXCEPT !.state_ctx.state = "Stopped",
                                                 !.summary.state = "Stopped"]
                  IN  stop_older_Silent([ss |-> [acc.ss EXCEPT ![sid] = stopped],
                                         ev |-> acc.ev],
                                        Tail(order), discovered)
             ELSE stop_older_Silent(acc, Tail(order), discovered)

\* handle_session_found, "Stop older active sessions for the same project".
RECURSIVE stop_older(_, _, _)
stop_older(acc, order, discovered) ==
    IF order = <<>> THEN acc
    ELSE LET sid == Head(order)
             session == acc.ss[sid]
         IN  IF /\ session.discovery_project_path = discovered.project_path
                /\ sid # discovered.session_id
                /\ IsActive(session.state_ctx.state)
             THEN LET prev == session.state_ctx.state
                      stopped == [session EXCEPT !.state_ctx.state = "Stopped",
                                                 !.summary.state = "Stopped"]
                  IN  stop_older([ss |-> [acc.ss EXCEPT ![sid] = stopped],
                                  ev |-> IF session.emitted
                                         THEN Append(acc.ev, StateChanged(sid, prev, "Stopped", 0))
                                         ELSE acc.ev],
                                 Tail(order), discovered)
             ELSE stop_older(acc, Tail(order), discovered)

\* The discovery handler takes a Found: handle_session_found up to
\* watcher.start().  The read-locked contains_key and the write-locked loop
\* are one step: nothing but this task inserts or removes a session.
FoundStart ==
    /\ CanPublish
    /\ LockFree
    /\ dtask.pc = "recv"
    /\ discovery_rx # <<>>
    /\ Head(discovery_rx).type = "Found"
    /\ discovery_rx' = Tail(discovery_rx)
    /\ LET discovered == Head(discovery_rx).d
       IN  IF discovered.session_id \in DOMAIN sessions
           THEN UNCHANGED <<sessions, published, watchers, entries_rx, dtask>>
           ELSE \E order \in Orders(DOMAIN sessions) :
                    LET r == stop_older([ss |-> sessions, ev |-> <<>>], order, discovered)
                    IN  /\ sessions' = r.ss
                        /\ Publish(r.ev)
                        /\ watchers' = watchers @@
                               (discovered.session_id :>
                                    [file_path |-> discovered.log_file, pos |-> 0,
                                     running |-> TRUE])
                        /\ entries_rx' = entries_rx @@ (discovered.session_id :> <<>>)
                        /\ dtask' = [pc |-> "insert", d |-> discovered]
    /\ UNCHANGED <<now, smVars, discVars, ctlVars, costVars, connVars, tailVars, known_sessions, removed_ids, consumers, routed,
                   broadcast_tx, message_tx, timer>>

\* handle_session_found from the insert on: the session is tracked and its
\* entries consumer task is spawned.
FoundInsert ==
    /\ dtask.pc = "insert"
    /\ LockFree
    /\ sessions' = sessions @@ (dtask.d.session_id :> TrackedSession(dtask.d, now))
    /\ consumers' = consumers \cup {dtask.d.session_id}
    /\ dtask' = [pc |-> "recv", d |-> None]
    /\ UNCHANGED <<now, smVars, discVars, ctlVars, costVars, connVars, tailVars, known_sessions, removed_ids, discovery_rx,
                   watchers, entries_rx, published, routed, broadcast_tx, message_tx, timer>>

HandleRemoved_Unguarded ==
    /\ CanPublish
    /\ dtask.pc = "recv"
    /\ discovery_rx # <<>>
    /\ Head(discovery_rx).type = "Removed"
    /\ discovery_rx' = Tail(discovery_rx)
    /\ LET session_id == Head(discovery_rx).session_id
       IN  /\ sessions' = [id \in DOMAIN sessions \ {session_id} |-> sessions[id]]
           /\ watchers' = [id \in DOMAIN watchers |->
                               IF id = session_id
                               THEN [watchers[id] EXCEPT !.running = FALSE]
                               ELSE watchers[id]]
           /\ Publish(<<SessionRemoved(session_id)>>)
    /\ UNCHANGED <<now, smVars, discVars, ctlVars, costVars, connVars, tailVars, known_sessions, removed_ids, dtask, entries_rx,
                   consumers, routed, broadcast_tx, message_tx, timer>>

\* The discovery handler takes a Removed.
HandleRemoved ==
    /\ CanPublish
    /\ LockFree
    /\ dtask.pc = "recv"
    /\ discovery_rx # <<>>
    /\ Head(discovery_rx).type = "Removed"
    /\ discovery_rx' = Tail(discovery_rx)
    /\ LET session_id == Head(discovery_rx).session_id
       IN  IF session_id \in DOMAIN sessions
           THEN /\ sessions' = [id \in DOMAIN sessions \ {session_id} |-> sessions[id]]
                /\ watchers' = [watchers EXCEPT ![session_id].running = FALSE]
                /\ Publish(<<SessionRemoved(session_id)>>)
           ELSE UNCHANGED <<sessions, watchers, published>>
    /\ UNCHANGED <<now, smVars, discVars, ctlVars, costVars, connVars, tailVars, known_sessions, removed_ids, dtask, entries_rx,
                   consumers, routed, broadcast_tx, message_tx, timer>>

\* read_new_content of a running watcher finds new lines and sends their
\* entries.
TailerRead ==
    \E session_id \in DOMAIN watchers, n \in 1..MaxBatch :
        LET watcher == watchers[session_id]
            lines == SubSeq(watcher.file_path, watcher.pos + 1, watcher.pos + n)
        IN  /\ watcher.running
            /\ CanSend(entries_rx[session_id])
            /\ watcher.pos + n <= Len(watcher.file_path)
            /\ TotalLines + n <= MaxLines
            /\ entries_rx' = [entries_rx EXCEPT ![session_id] =
                                  Append(@, Numbered(lines, watcher.pos))]
            /\ watchers' = [watchers EXCEPT ![session_id].pos = @ + n]
            /\ UNCHANGED <<now, smVars, discVars, ctlVars, costVars, connVars, tailVars, sessions, known_sessions, removed_ids,
                           discovery_rx, dtask, consumers, published, routed, broadcast_tx,
                           message_tx, timer>>

\* The entries consumer task of a session takes a batch: handle_entries.
Consume ==
    \E session_id \in consumers :
        /\ CanPublish
        /\ LockFree
        /\ entries_rx[session_id] # <<>>
        /\ entries_rx' = [entries_rx EXCEPT ![session_id] = Tail(@)]
        /\ IF session_id \in DOMAIN sessions
           THEN LET r == handle_entries(sessions[session_id], Head(entries_rx[session_id]), now)
                IN  /\ sessions' = [sessions EXCEPT ![session_id] = r.s]
                    /\ Publish(r.ev)
           ELSE UNCHANGED <<sessions, published>>
        /\ UNCHANGED <<now, smVars, discVars, ctlVars, costVars, connVars, tailVars, known_sessions, removed_ids, discovery_rx,
                       dtask, watchers, consumers, routed, broadcast_tx, message_tx, timer>>

RECURSIVE check_timers_loop_ProbesOnly(_, _, _)
check_timers_loop_ProbesOnly(acc, order, now_ms) ==
    IF order = <<>> THEN acc
    ELSE LET session_id == Head(order)
             session == acc.ss[session_id]
         IN  IF ~session.emitted THEN check_timers_loop_ProbesOnly(acc, Tail(order), now_ms)
             ELSE LET state == session.state_ctx.state
                      due == /\ state = "Idle" \/ state = "PermissionWaiting"
                             /\ session.summary.working_directory # <<>>
                             /\ now_ms - session.last_git_diff_check > GIT_DIFF_INTERVAL_MS
                      s3 == IF due THEN [session EXCEPT !.last_git_diff_check = now_ms]
                            ELSE session
                      targets == IF due
                                 THEN acc.targets \cup
                                      {[session_id |-> session_id,
                                        wd |-> session.summary.working_directory]}
                                 ELSE acc.targets
                  IN  check_timers_loop_ProbesOnly(
                          [ss |-> [acc.ss EXCEPT ![session_id] = s3],
                           ev |-> acc.ev, targets |-> targets],
                          Tail(order), now_ms)

\* check_timers, the loop under the write lock.
RECURSIVE check_timers_loop(_, _, _)
check_timers_loop(acc, order, now_ms) ==
    IF order = <<>> THEN acc
    ELSE LET session_id == Head(order)
             session == acc.ss[session_id]
         IN  IF ~session.emitted THEN check_timers_loop(acc, Tail(order), now_ms)
             ELSE LET prev_state == session.state_ctx.state
                      r == check_time_based_transitions(session.state_ctx, now_ms)
                      s1 == [session EXCEPT !.state_ctx = r.ctx]
                      s2 == IF r.result.changed
                            THEN [s1 EXCEPT !.summary.state = r.ctx.state]
                            ELSE s1
                      ev == IF r.result.changed
                            THEN Append(acc.ev, StateChanged(session_id, prev_state,
                                                             r.ctx.state, 0))
                            ELSE acc.ev
                      state == s2.state_ctx.state
                      due == /\ state = "Idle" \/ state = "PermissionWaiting"
                             /\ s2.summary.working_directory # <<>>
                             /\ now_ms - s2.last_git_diff_check > GIT_DIFF_INTERVAL_MS
                      s3 == IF due THEN [s2 EXCEPT !.last_git_diff_check = now_ms] ELSE s2
                      targets == IF due
                                 THEN acc.targets \cup
                                      {[session_id |-> session_id,
                                        wd |-> s2.summary.working_directory]}
                                 ELSE acc.targets
                  IN  check_timers_loop([ss |-> [acc.ss EXCEPT ![session_id] = s3],
                                         ev |-> ev, targets |-> targets],
                                        Tail(order), now_ms)

\* The 3 s tick: check_timers up to the spawning of the git probes.  The
\* timer task then waits for every probe before it ticks again.
TimerTick ==
    /\ CanPublish
    /\ LockFree
    /\ ~timer.exited
    /\ timer.probes = {} /\ timer.answers = {}
    /\ \E order \in Orders(DOMAIN sessions) :
           LET r == check_timers_loop([ss |-> sessions, ev |-> <<>>, targets |-> {}],
                                      order, now)
           IN  /\ sessions' = r.ss
               /\ Publish(r.ev)
               /\ timer' = [timer EXCEPT !.probes = r.targets]
               /\ lock_held' = guard_after_loop(r.targets)
    /\ UNCHANGED <<now, smVars, discVars, stop_pc, costVars, connVars, tailVars, known_sessions, removed_ids, discovery_rx, dtask,
                   watchers, entries_rx, consumers, routed, broadcast_tx, message_tx>>

\* The child process of a git probe ends: fetch_git_diff_stats returns.
ProbeAnswer ==
    \E target \in timer.probes, outcome \in GitOutcomes :
        /\ timer' = [timer EXCEPT
                         !.probes = @ \ {target},
                         !.answers = @ \cup {[target |-> target, outcome |-> outcome]}]
        /\ UNCHANGED <<now, smVars, discVars, ctlVars, costVars, connVars, tailVars, sessions, known_sessions,
                       removed_ids, discovery_rx, dtask, watchers, entries_rx, consumers,
                       published, routed, broadcast_tx, message_tx>>

ProbeCommit_Always ==
    \E answer \in timer.answers :
        LET target == answer.target
            outcome == answer.outcome
        IN  /\ CanPublish
            /\ outcome # None => LockFree
            /\ timer' = [timer EXCEPT !.answers = @ \ {answer}]
            /\ IF outcome # None /\ target.session_id \in DOMAIN sessions
               THEN LET session == sessions[target.session_id]
                        updated == [session EXCEPT
                                        !.summary.git_status.additions = outcome[1][1],
                                        !.summary.git_status.deletions = outcome[1][2]]
                    IN  /\ sessions' = [sessions EXCEPT ![target.session_id] = updated]
                        /\ Publish(<<GitStatusUpdated(target.session_id,
                                                      updated.summary.git_status)>>)
               ELSE UNCHANGED <<sessions, published>>
            /\ UNCHANGED <<now, smVars, discVars, ctlVars, costVars, connVars, tailVars, known_sessions,
                           removed_ids, discovery_rx, dtask, watchers, entries_rx, consumers,
                           routed, broadcast_tx, message_tx>>

ProbeCommit_Untracked ==
    \E answer \in timer.answers :
        LET target == answer.target
            outcome == answer.outcome
        IN  /\ CanPublish
            /\ outcome # None => LockFree
            /\ timer' = [timer EXCEPT !.answers = @ \ {answer}]
            /\ IF outcome # None
               THEN IF target.session_id \in DOMAIN sessions
                    THEN LET session == sessions[target.session_id]
                             updated == [session EXCEPT
                                             !.summary.git_status.additions = outcome[1][1],
                                             !.summary.git_status.deletions = outcome[1][2]]
                         IN  IF updated # session
                             THEN /\ sessions' = [sessions EXCEPT ![target.session_id] = updated]
                                  /\ Publish(<<GitStatusUpdated(target.session_id,
                                                                updated.summary.git_status)>>)
                             ELSE UNCHANGED <<sessions, published>>
                    ELSE /\ Publish(<<GitStatusUpdated(target.session_id,
                                                       [branch |-> <<>>,
                                                        additions |-> outcome[1][1],
                                                        deletions |-> outcome[1][2]])>>)
                         /\ UNCHANGED sessions
               ELSE UNCHANGED <<sessions, published>>
            /\ UNCHANGED <<now, smVars, discVars, ctlVars, costVars, connVars, tailVars, known_sessions,
                           removed_ids, discovery_rx, dtask, watchers, entries_rx, consumers,
                           routed, broadcast_tx, message_tx>>

\* The spawned task of a git probe goes on with the answer: with None it
\* ends, with a pair it commits the pair under the write lock.
ProbeCommit ==
    \E answer \in timer.answers :
        LET target == answer.target
            outcome == answer.outcome
        IN  /\ CanPublish
            /\ outcome # None => LockFree
            /\ timer' = [timer EXCEPT !.answers = @ \ {answer}]
            /\ IF outcome # None /\ target.session_id \in DOMAIN sessions
               THEN LET session == sessions[target.session_id]
                        additions == outcome[1][1]
                        deletions == outcome[1][2]
                        changed == \/ session.summary.git_status.additions # additions
                                   \/ session.summary.git_status.deletions # deletions
                        updated == [session EXCEPT
                                        !.summary.git_status.additions = additions,
                                        !.summary.git_status.deletions = deletions]
                    IN  IF changed
                        THEN /\ sessions' = [sessions EXCEPT ![target.session_id] = updated]
                             /\ Publish(<<GitStatusUpdated(target.session_id,
                                                           updated.summary.git_status)>>)
                        ELSE UNCHANGED <<sessions, published>>
               ELSE UNCHANGED <<sessions, published>>
            /\ UNCHANGED <<now, smVars, discVars, ctlVars, costVars, connVars, tailVars, known_sessions,
                           removed_ids, discovery_rx, dtask, watchers, entries_rx, consumers,
                           routed, broadcast_tx, message_tx>>

\* ClaudeCodeProvider's reads.  A Vec built from the HashMap's values is
\* held as the set of its elements.
get_sessions_All == {sessions[id].summary : id \in DOMAIN sessions}

get_sessions == {sessions[id].summary : id \in {i \in DOMAIN sessions : sessions[i].emitted}}

get_session_detail(session_id) ==
    IF session_id \in DOMAIN sessions
    THEN Some([summary |-> sessions[session_id].summary,
               messages |-> sessions[session_id].messages])
    ELSE None

get_session_messages(session_id) ==
    IF session_id \in DOMAIN sessions THEN Some(sessions[session_id].messages) ELSE None

\* SessionManager::get_session_summary.
get_session_summary(session_id) ==
    LET hits == {summary \in get_sessions : summary.session_id = session_id}
    IN  IF hits = {} THEN None ELSE Some(CHOOSE summary \in hits : TRUE)

\* search_sessions: the sessions of the results with their match counts.  The
\* query is one token, and every token is its own lower case; the snippets
\* and the order of the results are left out.
SearchScopes == {"ProjectName", "CurrentTask", "WorkingDirectory", "Content"}

match_count(session, query, scopes) ==
    LET hit(text) == Contains(text, <<query>>)
    IN  (IF "ProjectName" \in scopes /\ hit(session.summary.project_name) THEN 1 ELSE 0)
        + (IF "CurrentTask" \in scopes /\ hit(session.summary.current_task) THEN 1 ELSE 0)
        + (IF /\ "WorkingDirectory" \in scopes
              /\ \/ hit(session.summary.working_directory)
                 \/ hit(session.summary.project_path)
           THEN 1 ELSE 0)
        + (IF "Content" \in scopes
           THEN Cardinality({i \in 1..Len(session.messages) : hit(session.messages[i].content)})
           ELSE 0)

search_sessions(query, scopes) ==
    {[session |-> sessions[id].summary,
      match_count |-> match_count(sessions[id], query, scopes)] :
        id \in {i \in DOMAIN sessions :
                    sessions[i].emitted /\ match_count(sessions[i], query, scopes) > 0}}

\* handle_ws on ClientEvent::Subscribe: what it queues for the client, given
\* the answer of get_session_messages.
messages_init(session_id, messages) ==
    IF messages # None /\ messages[1] # <<>>
    THEN <<[type |-> "MessagesInit", session_id |-> session_id, messages |-> messages[1]]>>
    ELSE <<>>

subscribe_reply(session_id) == messages_init(session_id, get_session_messages(session_id))

\* The routing task of main takes the next provider event.
Route ==
    /\ routed < Len(published)
    /\ routed' = routed + 1
    /\ LET event == published[routed + 1]
       IN  IF event.type = "NewMessage"
           THEN /\ message_tx' = Append(message_tx, event)
                /\ UNCHANGED broadcast_tx
           ELSE IF event.type = "StateChanged"
           THEN LET session == get_session_summary(event.session_id)
                IN  /\ LockFree
                    /\ broadcast_tx' = IF session # None
                                       THEN Append(broadcast_tx,
                                                   [event EXCEPT !.payload = session])
                                       ELSE broadcast_tx
                    /\ UNCHANGED message_tx
           ELSE /\ broadcast_tx' = Append(broadcast_tx, event)
                /\ UNCHANGED message_tx
    /\ UNCHANGED <<now, smVars, discVars, ctlVars, costVars, connVars, tailVars, sessions, known_sessions, removed_ids,
                   discovery_rx, dtask, watchers, entries_rx, consumers, published, timer>>

\* Time passes.
AdvanceClock ==
    /\ \E t \in RegTimes : t > now /\ now' = t
    /\ UNCHANGED <<smVars, tailVars, regVars, discVars, ctlVars, costVars, connVars>>

\* Time passes, up to the longest timeout of the state machine.
LongSilence ==
    /\ \E t \in TimePoints : t > now /\ now' = t
    /\ UNCHANGED <<smVars, tailVars, regVars, discVars, ctlVars, costVars, connVars>>

Next ==
    \/ Discover
    \/ FileRemoved
    \/ FoundStart
    \/ FoundInsert
    \/ HandleRemoved
    \/ TailerRead
    \/ Consume
    \/ TimerTick
    \/ ProbeAnswer
    \/ ProbeCommit
    \/ Route
    \/ AdvanceClock

Spec == Init /\ [][Next]_vars

(***************************************************************************)
(* One tracked session whose log grows by assistant turns that name one    *)
(* model or another, or none, each handled as a batch of its own.          *)
(***************************************************************************)
MaxTurns == 3

ModelTurns ==
    {Assistant(<<"text">>, model, usage, Some(T0)) :
         model \in {None, Some(Sonnet), Some(Opus)}, usage \in {None, Some(Usage1)}}

InitModels ==
    /\ now = T0
    /\ SMIdle /\ DiscIdle /\ ConnIdle /\ CtlIdle /\ CostIdle
    /\ sessions = ("s1" :> TrackedSession(DiscoveredSession("s1", <<"-", "w", "-", "p1">>,
                                                             <<>>), T0))
    /\ known_sessions = {"s1"}
    /\ removed_ids = {}
    /\ discovery_rx = <<>>
    /\ dtask = None
    /\ watchers = ("s1" :> [file_path |-> <<>>, pos |-> 0, running |-> TRUE])
    /\ entries_rx = ("s1" :> <<>>)
    /\ consumers = {"s1"}
    /\ published = <<>> /\ routed = 0 /\ broadcast_tx = <<>> /\ message_tx = <<>>
    /\ timer = None
    /\ file = <<>> /\ offset = 0 /\ remainder = <<>> /\ applied = <<>>
    /\ mapped = <<>>
    /\ feed = None
    /\ woke = None

\* The next turn is appended, read, and given to handle_entries.
ModelTurn ==
    \E entry \in ModelTurns :
        LET pos == watchers["s1"].pos
            batch == Numbered(<<entry>>, pos)
            r == handle_entries(sessions["s1"], batch, now)
        IN  /\ pos < MaxTurns
            /\ sessions' = [sessions EXCEPT !["s1"] = r.s]
            /\ published' = published \o r.ev
            /\ watchers' = [watchers EXCEPT !["s1"].pos = pos + 1]
            /\ applied' = applied \o batch
            /\ UNCHANGED <<now, smVars, discVars, ctlVars, costVars, connVars, known_sessions,
                           removed_ids, discovery_rx, dtask, entries_rx, consumers, routed,
                           broadcast_tx, message_tx, timer, file, offset, remainder, mapped,
                           feed, woke>>

NextModels == ModelTurn

SpecModels == InitModels /\ [][NextModels]_vars

C33_Step ==
    LET before == sessions["s1"]
        after == sessions'["s1"]
        turn == applied'[Len(applied')]
    IN  before.model # Unknown =>
            /\ after.model = before.model
            /\ after.summary.model = before.summary.model
            /\ after.summary.cumulative_usage =
                   IF extract_usage(turn) = None
                   THEN before.summary.cumulative_usage
                   ELSE add_usage(before.summary.cumulative_usage, before.model,
                                  extract_usage(turn)[1])

\* C33: once a session has a known model, an Assistant record that names
\* another model changes neither session.model nor summary.model, and its
\* usage is costed with the row of the model the session had.
C33_ModelAdoptedOnce == [][C33_Step]_vars


(***************************************************************************)
(* Shutdown: ClaudeCodeProvider::stop, called by the task of main that     *)
(* waits for the interrupt, while the tasks of the registry run.           *)
(***************************************************************************)
\* stop: self.shutdown.send(true).
StopSignal ==
    /\ stop_pc = "idle"
    /\ stop_pc' = "signalled"
    /\ UNCHANGED <<now, smVars, regVars, tailVars, discVars, connVars, lock_held, costVars>>

\* stop: the SessionDiscovery is taken out of its Option, told to stop and
\* dropped.  Its scan task leaves its loop; the events it has sent stay in
\* the discovery channel for the handler task.
StopDiscovery ==
    /\ stop_pc = "signalled"
    /\ stop_pc' = "discovery_stopped"
    /\ UNCHANGED <<now, smVars, regVars, tailVars, discVars, connVars, lock_held, costVars>>

\* stop: under the write lock the sessions are drained and the watcher of
\* each is told to stop; stop returns.
StopDrain ==
    /\ stop_pc = "discovery_stopped"
    /\ LockFree
    /\ stop_pc' = "returned"
    /\ watchers' = [id \in DOMAIN watchers |->
                        IF id \in DOMAIN sessions
                        THEN [watchers[id] EXCEPT !.running = FALSE]
                        ELSE watchers[id]]
    /\ sessions' = <<>>
    /\ UNCHANGED <<now, smVars, tailVars, discVars, connVars, lock_held, costVars,
                   known_sessions, removed_ids, discovery_rx, dtask, entries_rx, consumers,
                   published, routed, broadcast_tx, message_tx, timer>>

\* The timer task between two ticks: shutdown_rx.changed() is ready and the
\* select! takes it.
TimerExit ==
    /\ stop_pc # "idle"
    /\ ~timer.exited
    /\ timer.probes = {} /\ timer.answers = {}
    /\ timer' = [timer EXCEPT !.exited = TRUE]
    /\ UNCHANGED <<now, smVars, tailVars, discVars, connVars, ctlVars, costVars, sessions,
                   known_sessions, removed_ids, discovery_rx, dtask, watchers, entries_rx,
                   consumers, published, routed, broadcast_tx, message_tx>>

NextStop ==
    \/ Discover
    \/ FoundStart
    \/ FoundInsert
    \/ TailerRead
    \/ Consume
    \/ TimerTick
    \/ ProbeAnswer
    \/ ProbeCommit
    \/ Route
    \/ StopSignal
    \/ StopDiscovery
    \/ StopDrain
    \/ TimerExit

SpecStop == Init /\ [][NextStop]_vars

\* The scan is done for, the handler task has taken every event sent to it
\* and is between two events.
HandlersDone == stop_pc = "returned" /\ discovery_rx = <<>> /\ dtask.pc = "recv"

\* C23: once stop has returned and the handlers of the discovery events
\* have finished, no tailer that was started is left running.
C23_NoTailerLeft ==
    HandlersDone => \A session_id \in DOMAIN watchers : ~watchers[session_id].running

(***************************************************************************)
(* Claims about the registry.                                              *)
(***************************************************************************)
IsEmitted(ss, session_id) == session_id \in DOMAIN ss /\ ss[session_id].emitted

\* The provider events a step publishes.
NewEvents == SubSeq(published', Len(published) + 1, Len(published'))

DiscoveredIn(events, session_id) ==
    {i \in 1..Len(events) :
        events[i].type = "SessionDiscovered" /\ events[i].session_id = session_id}

\* C1: a step publishes an event that names a session only if the session
\* is emitted, or becomes emitted in this step and the step has published
\* its SessionDiscovered before; SessionDiscovered is published once, in the
\* step that sets emitted, and in no other step.
C1_Step ==
    /\ \A i \in 1..Len(NewEvents) :
           LET e == NewEvents[i]
               earlier == {j \in DiscoveredIn(NewEvents, e.session_id) : j < i}
           IN  IF e.type = "SessionDiscovered"
               THEN /\ ~IsEmitted(sessions, e.session_id)
                    /\ IsEmitted(sessions', e.session_id)
                    /\ earlier = {}
               ELSE IsEmitted(sessions, e.session_id) \/ earlier # {}
    /\ \A session_id \in SessionIds :
           (~IsEmitted(sessions, session_id) /\ IsEmitted(sessions', session_id))
               => Cardinality(DiscoveredIn(NewEvents, session_id)) = 1

C2_UnemittedInvisible ==
    \A session_id \in DOMAIN sessions :
        ~sessions[session_id].emitted =>
            /\ \A summary \in get_sessions : summary.session_id # session_id
            /\ get_session_detail(session_id) = None
            /\ get_session_messages(session_id) = None
            /\ subscribe_reply(session_id) = <<>>
            /\ \A query \in {"hi", "w", "p1", "p2"}, scopes \in SUBSET SearchScopes :
                   \A result \in search_sessions(query, scopes) :
                       result.session.session_id # session_id

FromRecord(event) ==
    event.line > 0 /\ event.type \in {"StateChanged", "UsageUpdated", "NewMessage"}

C4_RecordOrder ==
    \A i, j \in 1..Len(published) :
        (/\ i < j
         /\ published[i].session_id = published[j].session_id
         /\ FromRecord(published[i])
         /\ FromRecord(published[j]))
            => published[i].line <= published[j].line

\* Two lines of one log, taken in two batches, have published events, and a
\* tick has published a state change of the session between them.
C4_Witness ==
    \E i, k, j \in 1..Len(published) :
        /\ i < k /\ k < j
        /\ published[i].session_id = published[j].session_id
        /\ published[k].session_id = published[i].session_id
        /\ FromRecord(published[i]) /\ FromRecord(published[j])
        /\ published[i].line < published[j].line
        /\ published[k].type = "StateChanged" /\ published[k].line = 0

\* The StateChanged events among events that name session_id, in order.
StateChangesOf(events, session_id) ==
    SelectSeq(events, LAMBDA e : e.type = "StateChanged" /\ e.session_id = session_id)

\* C12: the StateChanged events a step publishes for a session each have
\* previous # current and follow one another (each starts from the state the
\* one before ended in); they end in the state the session holds after the
\* step; for a session emitted before the step they start from the state it
\* held before the step, and there is none exactly when the step leaves its
\* state as it was or passes through states and returns.
C12_Step ==
    \A session_id \in SessionIds :
        LET evs == StateChangesOf(NewEvents, session_id)
        IN  /\ \A i \in 1..Len(evs) : evs[i].previous # evs[i].current
            /\ \A i \in 1..(Len(evs) - 1) : evs[i + 1].previous = evs[i].current
            /\ evs # <<>> =>
                   /\ session_id \in DOMAIN sessions'
                   /\ evs[Len(evs)].current = sessions'[session_id].state_ctx.state
            /\ (IsEmitted(sessions, session_id) /\ session_id \in DOMAIN sessions') =>
                   IF evs = <<>>
                   THEN sessions'[session_id].state_ctx.state =
                            sessions[session_id].state_ctx.state
                   ELSE evs[1].previous = sessions[session_id].state_ctx.state

C12_StateChangedOnTransition == [][C12_Step]_vars

\* A session has published a state change made by one of its records and,
\* later, its stop by the Found of another session of the same project.
C12_Witness ==
    \E i, j \in 1..Len(published) :
        /\ i < j
        /\ published[i].session_id = published[j].session_id
        /\ published[i].type = "StateChanged" /\ published[i].line > 0
        /\ published[j].type = "StateChanged" /\ published[j].line = 0
        /\ published[j].current = "Stopped"

\* The step in which the discovery handler takes the Found of a session it
\* does not track: handle_session_found up to the start of the watcher.
FoundHandled == dtask.pc = "recv" /\ dtask'.pc = "insert"

\* The events among events that name session_id.
EventsOf(events, session_id) == SelectSeq(events, LAMBDA e : e.session_id = session_id)

\* What the Found of a session with project path P does to every session
\* tracked before: one of project P in an active state is Stopped
\* afterwards, every other one is as it was and no event names it.
ForceStop(unemitted_too) ==
    FoundHandled =>
        \A session_id \in DOMAIN sessions :
            LET session == sessions[session_id]
                prev == session.state_ctx.state
            IN  IF /\ session.discovery_project_path = dtask'.d.project_path
                   /\ IsActive(prev)
                THEN /\ sessions'[session_id] =
                            [session EXCEPT !.state_ctx.state = "Stopped",
                                            !.summary.state = "Stopped"]
                     /\ EventsOf(NewEvents, session_id) =
                            IF unemitted_too \/ session.emitted
                            THEN <<StateChanged(session_id, prev, "Stopped", 0)>>
                            ELSE <<>>
                ELSE /\ sessions'[session_id] = session
                     /\ EventsOf(NewEvents, session_id) = <<>>

\* C13 as stated: when the Found of an untracked session with project path
\* P is handled, every tracked session of project P that is Running, Idle,
\* PermissionWaiting or Error is set to Stopped and a StateChanged{previous,
\* Stopped} is published for it; every other session is unchanged and
\* produces no event.
C13_ForceStopPublishes == [][ForceStop(TRUE)]_vars

\* C13 amended: as above, with the StateChanged published exactly for the
\* stopped sessions that are emitted; an unemitted one is stopped silently.
C13_ForceStopPublishesIfEmitted == [][ForceStop(FALSE)]_vars

\* The Found of a second session of the same project has stopped a session
\* that had read a record and was not emitted yet.
C13_Witness ==
    /\ dtask.pc = "insert"
    /\ \E session_id \in DOMAIN sessions :
           /\ sessions[session_id].discovery_project_path = dtask.d.project_path
           /\ ~sessions[session_id].emitted
           /\ sessions[session_id].messages # <<>>
           /\ sessions[session_id].state_ctx.state = "Stopped"
           /\ EventsOf(published, session_id) = <<>>

\* The step in which the discovery handler takes a Removed.
RemovedHandled ==
    /\ dtask.pc = "recv"
    /\ discovery_rx # <<>>
    /\ Head(discovery_rx).type = "Removed"
    /\ discovery_rx' = Tail(discovery_rx)

\* C14: handling Removed(id) for a tracked session stops its watcher,
\* deletes the session (the detail and the messages of id are then None)
\* and publishes exactly one SessionRemoved{id}, leaving the other sessions
\* as they were; for an id that is not tracked it changes no session and no
\* watcher and publishes nothing; and a session whose SessionRemoved was
\* published is not tracked again.
C14_Step ==
    \A session_id \in SessionIds :
        (RemovedHandled /\ Head(discovery_rx).session_id = session_id) =>
            IF session_id \in DOMAIN sessions
            THEN /\ DOMAIN sessions' = DOMAIN sessions \ {session_id}
                 /\ \A id \in DOMAIN sessions' : sessions'[id] = sessions[id]
                 /\ ~watchers'[session_id].running
                 /\ \A id \in DOMAIN watchers \ {session_id} : watchers'[id] = watchers[id]
                 /\ NewEvents = <<SessionRemoved(session_id)>>
                 /\ get_session_detail(session_id)' = None
                 /\ get_session_messages(session_id)' = None
            ELSE /\ UNCHANGED <<sessions, watchers, published>>

C14_RemovedDropsSession ==
    /\ [](\A i \in 1..Len(published) :
             published[i].type = "SessionRemoved" =>
                 /\ published[i].session_id \notin DOMAIN sessions
                 /\ get_session_detail(published[i].session_id) = None
                 /\ get_session_messages(published[i].session_id) = None)
    /\ [][C14_Step]_vars

\* A session that had read records was removed: its SessionRemoved is
\* published, its watcher is stopped and its detail is gone.
C14_Witness ==
    \E i \in 1..Len(published) :
        /\ published[i].type = "SessionRemoved"
        /\ published[i].session_id \in DOMAIN watchers
        /\ watchers[published[i].session_id].pos > 0
        /\ ~watchers[published[i].session_id].running
        /\ get_session_detail(published[i].session_id) = None

\* The consumer task of session_id has a batch to hand to handle_entries,
\* and handle_entries can take the lock.
BatchWaiting(session_id) ==
    /\ session_id \in consumers
    /\ entries_rx[session_id] # <<>>

CanHandle(session_id) == BatchWaiting(session_id) /\ LockFree

\* C21: while a git probe is pending no task keeps the lock of the registry
\* (check_timers has released it before the child processes run, and a
\* probe takes it only to commit), so a consumer task that has a batch can
\* run handle_entries.
C21_ProbeRunsUnlocked ==
    timer.probes # {} =>
        /\ lock_held = None
        /\ \A session_id \in SessionIds : BatchWaiting(session_id) => CanHandle(session_id)

\* A probe for s1 is pending, started when the tick found s1 waiting for a
\* permission, and handle_entries has since handled the end of the turn.
C21_Witness ==
    /\ \E target \in timer.probes : target.session_id = "s1"
    /\ \E i \in 1..Len(published) :
           /\ published[i].type = "StateChanged"
           /\ published[i].session_id = "s1"
           /\ published[i].previous = "PermissionWaiting"
           /\ published[i].current = "Idle"
           /\ published[i].line > 0

\* The step in which the task of a git probe goes on with its answer.
Committed(answer) == answer \in timer.answers /\ answer \notin timer'.answers

\* The answer is a pair for a tracked session that differs from the stored
\* pair.
Differs(answer) ==
    /\ answer.outcome # None
    /\ answer.target.session_id \in DOMAIN sessions
    /\ <<sessions[answer.target.session_id].summary.git_status.additions,
          sessions[answer.target.session_id].summary.git_status.deletions>>
           # answer.outcome[1]

\* C22: a git probe that ends with the pair (a, d) for a tracked session
\* stores the pair and publishes one GitStatusUpdated with it if and only
\* if the pair differs from the stored one; a failed probe, an equal pair
\* and an answer for a session no longer tracked change and publish nothing.
C22_Step ==
    \A answer \in timer.answers :
        Committed(answer) =>
            IF Differs(answer)
            THEN /\ sessions' =
                        [sessions EXCEPT
                             ![answer.target.session_id].summary.git_status.additions =
                                 answer.outcome[1][1],
                             ![answer.target.session_id].summary.git_status.deletions =
                                 answer.outcome[1][2]]
                 /\ NewEvents =
                        <<GitStatusUpdated(
                              answer.target.session_id,
                              [branch |-> sessions[answer.target.session_id]
                                              .summary.git_status.branch,
                               additions |-> answer.outcome[1][1],
                               deletions |-> answer.outcome[1][2]])>>
            ELSE sessions' = sessions /\ published' = published

C22_GitStatusOnChange == [][C22_Step]_vars

\* A probe of s1 has answered (1, 0) and the pair is stored and published;
\* another answer of the same tick is still to commit.
C22_Witness ==
    /\ "s1" \in DOMAIN sessions
    /\ sessions["s1"].summary.git_status.additions = 1
    /\ \E i \in 1..Len(published) :
           published[i].type = "GitStatusUpdated" /\ published[i].session_id = "s1"
    /\ timer.answers # {}

\* The lifecycle state of a tracked session, in the state machine's context
\* and in the summary.
StateOf(ss, session_id) == <<ss[session_id].state_ctx.state, ss[session_id].summary.state>>

\* The steps that run the state machine: handle_entries on a batch of
\* session_id (process_entry and the check after the loop), and the tick
\* (check_time_based_transitions).
Handled(session_id) ==
    /\ session_id \in consumers
    /\ entries_rx[session_id] # <<>>
    /\ entries_rx'[session_id] = Tail(entries_rx[session_id])

Ticked ==
    /\ timer.probes = {} /\ timer.answers = {}
    /\ UNCHANGED <<now, discovery_rx, dtask, entries_rx, watchers, routed>>

\* The step is the Found of a session of the project of session_id, which
\* is active and ends Stopped.
ForceStopped(session_id) ==
    /\ FoundHandled
    /\ sessions[session_id].discovery_project_path = dtask'.d.project_path
    /\ IsActive(sessions[session_id].state_ctx.state)
    /\ StateOf(sessions', session_id) = <<"Stopped", "Stopped">>

StateWrittenOnlyBy(force_stop_too) ==
    \A session_id \in SessionIds :
        (/\ session_id \in DOMAIN sessions
         /\ session_id \in DOMAIN sessions'
         /\ StateOf(sessions', session_id) # StateOf(sessions, session_id)) =>
            \/ Handled(session_id)
            \/ Ticked
            \/ force_stop_too /\ ForceStopped(session_id)

\* C26 as stated: the lifecycle state of a session changes only in a step
\* that runs process_entry or check_time_based_transitions; Found handling,
\* Removed handling, the commit of a git probe and the routing leave it.
C26_StateOnlyByStateMachine == [][StateWrittenOnlyBy(FALSE)]_vars

\* C26 amended: the state changes only in such a step or in the Found of a
\* newer session of the same project, which sets an active session to
\* Stopped.
C26_StateByStateMachineOrForceStop == [][StateWrittenOnlyBy(TRUE)]_vars

\* A session that was emitted and Idle has been stopped by the Found of a
\* second session of its project.
C26_Witness ==
    /\ dtask.pc = "insert"
    /\ \E session_id \in DOMAIN sessions :
           /\ sessions[session_id].discovery_project_path = dtask.d.project_path
           /\ sessions[session_id].emitted
           /\ sessions[session_id].state_ctx.state = "Stopped"
           /\ published # <<>>
           /\ published[Len(published)] = StateChanged(session_id, "Idle", "Stopped", 0)

\* In the step, a session becomes tracked while another session of the same
\* project is tracked and active.
C35_Step ==
    \A found \in DOMAIN sessions' \ DOMAIN sessions :
        \A older \in DOMAIN sessions' \ {found} :
            sessions'[older].discovery_project_path = sessions'[found].discovery_project_path
                => ~IsActive(sessions'[older].state_ctx.state)

\* C35: when a session that was found becomes tracked, no other tracked
\* session of the same project is Running, Idle, PermissionWaiting or Error.
C35_NoActiveOlder == [][C35_Step]_vars

\* C36: whenever no task holds the lock of the registry, the state in the
\* summary of every tracked session is the state of its state machine.
C36_SummaryStateInSync ==
    LockFree =>
        \A session_id \in DOMAIN sessions :
            sessions[session_id].summary.state = sessions[session_id].state_ctx.state

\* Two sessions are tracked after batches, a force-stop and a tick: one was
\* stopped and the other is active.
C36_Witness ==
    /\ LockFree
    /\ \E older, found \in DOMAIN sessions :
           /\ sessions[older].emitted
           /\ sessions[older].summary.state = "Stopped"
           /\ \E i \in 1..Len(published) :
                  /\ published[i].type = "StateChanged"
                  /\ published[i].session_id = older
                  /\ published[i].current = "Stopped"
                  /\ published[i].line = 0
           /\ IsActive(sessions[found].summary.state)

\* The position in published of the last SessionDiscovered or StateChanged
\* of the session before position i; 0 when there is none.
LastStateBefore(i) ==
    LET earlier == {j \in 1..(i - 1) :
                        /\ published[j].session_id = published[i].session_id
                        /\ published[j].type \in {"SessionDiscovered", "StateChanged"}}
    IN  IF earlier = {} THEN 0 ELSE CHOOSE j \in earlier : \A k \in earlier : k <= j

\* C37: the StateChanged events of a session form a chain: the previous of
\* each is the current of the StateChanged before it, and the previous of
\* the first after a SessionDiscovered is the state in the summary that the
\* SessionDiscovered carries.
C37_StateChangedChain ==
    \A i \in 1..Len(published) :
        published[i].type = "StateChanged" =>
            LET j == LastStateBefore(i)
            IN  /\ j # 0
                /\ published[i].previous =
                       IF published[j].type = "StateChanged"
                       THEN published[j].current
                       ELSE published[j].payload[1].state

\* A session was discovered, a record changed its state, and a force-stop
\* or a tick changed it again.
C37_Witness ==
    \E i, j, k \in 1..Len(published) :
        /\ i < j /\ j < k
        /\ published[i].type = "SessionDiscovered"
        /\ published[j].type = "StateChanged" /\ published[j].line > 0
        /\ published[k].type = "StateChanged" /\ published[k].line = 0
        /\ published[i].session_id = published[j].session_id
        /\ published[j].session_id = published[k].session_id

\* The session:state_changed envelopes on the broadcast channel.
StateChangedEnvelopes ==
    {i \in 1..Len(broadcast_tx) : broadcast_tx[i].type = "StateChanged"}

\* The routing task takes a StateChanged of a session that is tracked and
\* emitted when it takes it.
RoutesTrackedChange ==
    /\ routed' = routed + 1
    /\ routed < Len(published)
    /\ published[routed + 1].type = "StateChanged"
    /\ published[routed + 1].session_id \in DOMAIN sessions
    /\ sessions[published[routed + 1].session_id].emitted

C38_Step ==
    RoutesTrackedChange =>
        /\ Len(broadcast_tx') = Len(broadcast_tx) + 1
        /\ broadcast_tx'[Len(broadcast_tx')].type = "StateChanged"
        /\ broadcast_tx'[Len(broadcast_tx')].session_id = published[routed + 1].session_id
        /\ broadcast_tx'[Len(broadcast_tx')].current = published[routed + 1].current

\* C38: the summary embedded in every session:state_changed envelope has the
\* state the envelope names as current, and every StateChanged of a tracked,
\* emitted session that the routing task takes yields one envelope.
C38_EnvelopeSummaryIsCurrent ==
    /\ [](\A i \in StateChangedEnvelopes :
            broadcast_tx[i].payload[1].state = broadcast_tx[i].current)
    /\ [][C38_Step]_vars

\* A step takes a record batch queued for session_id, or the answer of a
\* git probe of session_id.
TakesBatch(session_id) ==
    IF session_id \in DOMAIN entries_rx
    THEN Len(entries_rx'[session_id]) < Len(entries_rx[session_id])
    ELSE FALSE

TakesAnswer(session_id) ==
    \E answer \in timer.answers \ timer'.answers : answer.target.session_id = session_id

C40_Step ==
    \A session_id \in SessionIds \ DOMAIN sessions :
        (TakesBatch(session_id) \/ TakesAnswer(session_id)) =>
            sessions' = sessions /\ published' = published

\* C40: while a session whose SessionRemoved was published is not tracked
\* again, SessionRemoved stays the last event that names it; a record batch
\* or a probe answer taken for a session that is not tracked changes no
\* session and publishes nothing.
C40_NothingAfterRemoved ==
    /\ [](\A session_id \in SessionIds \ DOMAIN sessions :
            EventsOf(published, session_id) # <<>> =>
                EventsOf(published, session_id)[Len(EventsOf(published, session_id))] = SessionRemoved(session_id))
    /\ [][C40_Step]_vars

\* A session was removed with an Assistant record still queued for it, and
\* the batch has been taken since: no event carries the line of the record.
C40_Witness ==
    \E session_id \in SessionIds \ DOMAIN sessions :
        /\ published # <<>>
        /\ published[Len(published)] = SessionRemoved(session_id)
        /\ session_id \in DOMAIN entries_rx /\ entries_rx[session_id] = <<>>
        /\ \E line \in 1..watchers[session_id].pos :
               /\ watchers[session_id].file_path[line].kind = "Assistant"
               /\ \A i \in 1..Len(published) :
                      published[i].session_id = session_id => published[i].line # line

(***************************************************************************)
(* One session and a long silence: a log that is read and then left alone  *)
(* while the clock runs up to 30 minutes, with the tick, its probes and    *)
(* the routing task.  The session is tracked and its consumer is spawned;  *)
(* its log is a prompt alone (the session is never emitted), a prompt and  *)
(* a turn that asks for a tool, a turn of text, or a turn of text and the  *)
(* next prompt.                                                            *)
(***************************************************************************)
SilentLogs ==
    {<<UserStr(<<"hi">>, Some(T0))>>,
     <<UserStr(<<"hi">>, Some(T0)),
       Assistant(<<"tool_use">>, Some(Sonnet), Some(Usage1), Some(T0))>>,
     <<Assistant(<<"text">>, Some(Opus), Some(Usage1), Some(T0))>>,
     <<Assistant(<<"text">>, Some(Opus), Some(Usage1), Some(T0)),
       UserStr(<<"hi">>, Some(T0))>>}

InitTimer ==
    /\ now = T0
    /\ SMIdle /\ DiscIdle /\ ConnIdle /\ TailIdle /\ CtlIdle /\ CostIdle
    /\ \E log_file \in SilentLogs :
           LET discovered == DiscoveredSession("s1", <<"-", "w", "-", "p1">>, log_file)
           IN  /\ sessions = ("s1" :> TrackedSession(discovered, T0))
               /\ watchers = ("s1" :> [file_path |-> log_file, pos |-> 0, running |-> TRUE])
    /\ known_sessions = {"s1"}
    /\ removed_ids = {}
    /\ discovery_rx = <<>>
    /\ dtask = [pc |-> "recv", d |-> None]
    /\ entries_rx = ("s1" :> <<>>)
    /\ consumers = {"s1"}
    /\ published = <<>> /\ routed = 0 /\ broadcast_tx = <<>> /\ message_tx = <<>>
    /\ timer = [probes |-> {}, answers |-> {}, exited |-> FALSE]

NextTimer ==
    TailerRead \/ Consume \/ TimerTick \/ ProbeAnswer \/ ProbeCommit \/ Route \/ LongSilence

SpecTimer == InitTimer /\ [][NextTimer]_vars

\* The 3 s interval ticks for ever, every probe ends, and the routing task
\* takes what waits for it.
SpecTimerFair ==
    /\ SpecTimer
    /\ WF_vars(TimerTick) /\ WF_vars(ProbeAnswer) /\ WF_vars(ProbeCommit) /\ WF_vars(Route)

\* The log of a session has been read to its end and every batch handled:
\* the session receives no further records.
Quiet(session_id) ==
    /\ session_id \in DOMAIN sessions
    /\ watchers[session_id].pos = Len(watchers[session_id].file_path)
    /\ entries_rx[session_id] = <<>>

\* Running, with 30 minutes or more since the last activity.
RunningStale(session_id) ==
    /\ session_id \in DOMAIN sessions
    /\ sessions[session_id].state_ctx.state = "Running"
    /\ now - sessions[session_id].state_ctx.last_activity_at >= STOPPED_TIMEOUT_MS

IsStopped(session_id) ==
    session_id \in DOMAIN sessions /\ sessions[session_id].state_ctx.state = "Stopped"

\* Emitted, with the tool-use flag not set.
EmittedNoToolUse(session_id) ==
    /\ session_id \in DOMAIN sessions
    /\ sessions[session_id].emitted
    /\ ~sessions[session_id].state_ctx.last_assistant_tool_use

\* C16 as stated: a Running session that receives no further records and
\* whose last activity is 30 minutes or more ago eventually is Stopped,
\* whatever its two assistant flags and whether it is emitted or not.
C16_RunningEventuallyStopped ==
    \A session_id \in SessionIds :
        [](Quiet(session_id) /\ RunningStale(session_id)
              => <>IsStopped(session_id))

\* C16 amended: the same for an emitted session whose tool-use flag is not
\* set (directly, or through Idle when the text-only flag is set).
C16_EmittedRunningEventuallyStopped ==
    \A session_id \in SessionIds :
        [](Quiet(session_id) /\ RunningStale(session_id) /\ EmittedNoToolUse(session_id)
              => <>IsStopped(session_id))

\* Ticks have taken a silent session from Running through Idle to Stopped.
C16_Witness ==
    /\ Quiet("s1")
    /\ sessions["s1"].state_ctx.state = "Stopped"
    /\ \E i, j \in 1..Len(published) :
           /\ i < j
           /\ published[i] = StateChanged("s1", "Running", "Idle", 0)
           /\ published[j] = StateChanged("s1", "Idle", "Stopped", 0)

\* The step in which the consumer task of session_id takes a batch.
BatchHandled(session_id) ==
    /\ session_id \in DOMAIN sessions
    /\ entries_rx[session_id] # <<>>
    /\ entries_rx'[session_id] = Tail(entries_rx[session_id])

\* C17: when handle_entries returns, the time-based check has nothing left
\* to do: run again at the same clock value on the session's context it
\* changes nothing.
C17_SettledAfterBatch ==
    [][\A session_id \in SessionIds :
           BatchHandled(session_id) =>
               LET r == check_time_based_transitions(sessions'[session_id].state_ctx, now)
               IN  ~r.result.changed /\ r.ctx = sessions'[session_id].state_ctx
    ]_vars

(***************************************************************************)
(* The tailer: file_watcher.rs over jsonl_parser.rs, byte by byte.         *)
(* The bytes of a log are "{", which stands for the bytes that open a user *)
(* record up to the quote that opens its string content, "}", which stands *)
(* for the bytes from the closing quote to the end of the record, the two  *)
(* bytes "L" and "C" of a two-byte UTF-8 character inside the content, and *)
(* the newline.  Decoded text holds "{", "}", the newline, the character   *)
(* "U+00E9" that L C encode, and the replacement character "U+FFFD".       *)
(***************************************************************************)
MaxBytes == 5

Bytes == {"{", "}", "L", "C", "\n"}

\* String::from_utf8_lossy: a lead byte with its continuation byte is one
\* character; a lead byte without one and a continuation byte without a lead
\* are each replaced by U+FFFD.
RECURSIVE from_utf8_lossy(_)
from_utf8_lossy(buf) ==
    IF buf = <<>> THEN <<>>
    ELSE IF Head(buf) = "L"
    THEN IF Len(buf) >= 2 /\ buf[2] = "C"
         THEN <<"U+00E9">> \o from_utf8_lossy(SubSeq(buf, 3, Len(buf)))
         ELSE <<"U+FFFD">> \o from_utf8_lossy(Tail(buf))
    ELSE IF Head(buf) = "C"
    THEN <<"U+FFFD">> \o from_utf8_lossy(Tail(buf))
    ELSE <<Head(buf)>> \o from_utf8_lossy(Tail(buf))

\* str::trim.
Whitespace == {" ", "\t", "\r", "\n"}

RECURSIVE trim_start(_)
trim_start(text) ==
    IF text # <<>> /\ Head(text) \in Whitespace THEN trim_start(Tail(text)) ELSE text

RECURSIVE trim_end(_)
trim_end(text) ==
    IF text # <<>> /\ text[Len(text)] \in Whitespace
    THEN trim_end(SubSeq(text, 1, Len(text) - 1))
    ELSE text

trim(text) == trim_end(trim_start(text))

\* parse_jsonl_line: None, or Some(entry).  A line is JSON when it is the
\* opening of a record, a string content and the closing; a brace inside
\* the content ends the string early and the line is not JSON.
parse_jsonl_line(line) ==
    LET trimmed == trim(line)
        content == SubSeq(trimmed, 2, Len(trimmed) - 1)
    IN  IF trimmed = <<>> THEN None
        ELSE IF /\ Len(trimmed) >= 2
                /\ trimmed[1] = "{"
                /\ trimmed[Len(trimmed)] = "}"
                /\ \A i \in 1..Len(content) : content[i] \notin {"{", "}"}
        THEN Some(UserStr(content, None))
        ELSE None

\* chunk.split('\n').
RECURSIVE split_lines(_)
split_lines(chunk) ==
    LET at == FirstAt({i \in 1..Len(chunk) : chunk[i] = "\n"})
    IN  IF at = 0 THEN <<chunk>>
        ELSE <<SubSeq(chunk, 1, at - 1)>> \o split_lines(SubSeq(chunk, at + 1, Len(chunk)))

RECURSIVE parse_lines(_)
parse_lines(lines) ==
    IF lines = <<>> THEN <<>>
    ELSE parse_jsonl_line(Head(lines)) \o parse_lines(Tail(lines))

parse_jsonl_chunk(chunk) ==
    LET lines == split_lines(chunk)
        ends_with_newline == chunk # <<>> /\ chunk[Len(chunk)] = "\n"
    IN  IF ends_with_newline
        THEN [entries |-> parse_lines(lines), remainder |-> <<>>]
        ELSE [entries |-> parse_lines(SubSeq(lines, 1, Len(lines) - 1)),
              remainder |-> lines[Len(lines)]]

\* read_new_content past its early returns: what it makes of the bytes
\* from offset to size.
read_new_content(bytes, from, size, rem) ==
    LET buf == SubSeq(bytes, from + 1, size)
        text == from_utf8_lossy(buf)
        full_chunk == rem \o text
        result == parse_jsonl_chunk(full_chunk)
    IN  [offset |-> size, remainder |-> result.remainder, entries |-> result.entries]

\* What can fail in a call of read_new_content: the file is not there, or
\* metadata, File::open, seek or read_exact returns another error.
MaxCuts == 1

Faults == {"none", "not_found", "metadata", "open", "seek", "read_exact"}

\* The bytes of a log of records without multi-byte characters.
PlainBytes == {"{", "}", "\n"}

Woke(fault, bit, cuts) == [fault |-> fault, bit |-> bit, cuts |-> cuts]

wake_Rewind(bytes, off, rem, fault) ==
    IF fault \in {"not_found", "metadata"}
    THEN [offset |-> off, remainder |-> rem, entries |-> <<>>]
    ELSE IF Len(bytes) <= off
    THEN [offset |-> Len(bytes), remainder |-> rem, entries |-> <<>>]
    ELSE IF fault \in {"open", "seek", "read_exact"}
    THEN [offset |-> off, remainder |-> rem, entries |-> <<>>]
    ELSE read_new_content(bytes, off, Len(bytes), rem)

\* One call of read_new_content from the wake loop, whole: the early
\* returns, and the read when nothing fails and the file has grown.
wake(bytes, off, rem, fault) ==
    IF fault \in {"not_found", "metadata"}
    THEN [offset |-> off, remainder |-> rem, entries |-> <<>>]
    ELSE IF Len(bytes) <= off
    THEN [offset |-> off, remainder |-> rem, entries |-> <<>>]
    ELSE IF fault \in {"open", "seek", "read_exact"}
    THEN [offset |-> off, remainder |-> rem, entries |-> <<>>]
    ELSE read_new_content(bytes, off, Len(bytes), rem)

\* The watcher of "s1" has been started by handle_session_found, which has
\* yet to insert the session.
InitTail ==
    /\ now = T0
    /\ SMIdle /\ DiscIdle /\ ConnIdle /\ CtlIdle /\ CostIdle
    /\ sessions = <<>>
    /\ known_sessions = {"s1"}
    /\ removed_ids = {}
    /\ discovery_rx = <<>>
    /\ \E dir \in Dirs : dtask = [pc |-> "insert", d |-> DiscoveredSession("s1", dir, <<>>)]
    /\ watchers = ("s1" :> [file_path |-> <<>>, pos |-> 0, running |-> TRUE])
    /\ entries_rx = ("s1" :> <<>>)
    /\ consumers = {}
    /\ published = <<>> /\ routed = 0 /\ broadcast_tx = <<>> /\ message_tx = <<>>
    /\ timer = [probes |-> {}, answers |-> {}, exited |-> FALSE]
    /\ file = <<>> /\ offset = 0 /\ remainder = <<>>
    /\ applied = <<>> /\ mapped = <<>>
    /\ feed = None
    /\ woke = Woke("none", 0, 0)

\* The log's writer appends a byte.
TailAppend ==
    \E b \in Bytes :
        /\ Len(file) < MaxBytes
        /\ file' = Append(file, b)
        /\ UNCHANGED <<now, smVars, discVars, ctlVars, costVars, connVars, regVars, offset, remainder, applied, mapped, feed, woke>>

\* The tailer wakes (initial read, notify, poll) and the file has grown:
\* read_new_content.
TailWake ==
    LET size == Len(file)
        r == read_new_content(file, offset, size, remainder)
    IN  /\ watchers["s1"].running
        /\ size > offset
        /\ r.entries = <<>> \/ CanSend(entries_rx["s1"])
        /\ offset' = r.offset
        /\ remainder' = r.remainder
        /\ entries_rx' = IF r.entries # <<>>
                         THEN [entries_rx EXCEPT !["s1"] = Append(@, r.entries)]
                         ELSE entries_rx
        /\ UNCHANGED <<now, smVars, discVars, ctlVars, costVars, connVars, file, applied, mapped, feed, woke, sessions, known_sessions, removed_ids,
                       discovery_rx, dtask, watchers, consumers, published, routed,
                       broadcast_tx, message_tx, timer>>

\* The entries consumer task takes a batch: handle_entries.
TailConsume ==
    /\ "s1" \in consumers
    /\ LockFree
    /\ entries_rx["s1"] # <<>>
    /\ entries_rx' = [entries_rx EXCEPT !["s1"] = Tail(@)]
    /\ applied' = applied \o Head(entries_rx["s1"])
    /\ IF "s1" \in DOMAIN sessions
       THEN LET r == handle_entries(sessions["s1"], Head(entries_rx["s1"]), now)
            IN  /\ sessions' = [sessions EXCEPT !["s1"] = r.s]
                /\ Publish(r.ev)
       ELSE UNCHANGED <<sessions, published>>
    /\ UNCHANGED <<now, smVars, discVars, ctlVars, costVars, connVars, known_sessions, removed_ids, discovery_rx, dtask, watchers,
                   consumers, routed, broadcast_tx, message_tx, timer, file, offset,
                   remainder, mapped, feed, woke>>

NextTail == TailAppend \/ TailWake \/ FoundInsert \/ TailConsume

\* The log's writer appends a byte of a plain record.
TailAppendPlain ==
    \E b \in PlainBytes :
        /\ Len(file) < MaxBytes
        /\ file' = Append(file, b)
        /\ UNCHANGED <<now, smVars, discVars, ctlVars, costVars, connVars, regVars, offset,
                       remainder, applied, mapped, feed, woke>>

\* The log is cut short (truncated, or replaced by a shorter file).
TailTruncate ==
    \E size \in 0..(Len(file) - 1) :
        /\ woke.cuts < MaxCuts
        /\ file' = SubSeq(file, 1, size)
        /\ woke' = [woke EXCEPT !.cuts = @ + 1]
        /\ UNCHANGED <<now, smVars, discVars, ctlVars, costVars, connVars, regVars, offset,
                       remainder, applied, mapped, feed>>

\* The tailer wakes (initial read, notify, poll), whatever the file looks
\* like and whatever fails.  The batches stay in the channel: the consumer
\* task is not spawned yet.
TailWakeAny ==
    \E fault \in Faults :
        LET r == wake(file, offset, remainder, fault)
        IN  /\ watchers["s1"].running
            /\ offset' = r.offset
            /\ remainder' = r.remainder
            /\ entries_rx' = IF r.entries # <<>>
                             THEN [entries_rx EXCEPT !["s1"] = Append(@, r.entries)]
                             ELSE entries_rx
            /\ woke' = Woke(fault, 1 - woke.bit, woke.cuts)
            /\ UNCHANGED <<now, smVars, discVars, ctlVars, costVars, connVars, file, applied,
                           mapped, feed, sessions, known_sessions, removed_ids, discovery_rx,
                           dtask, watchers, consumers, published, routed, broadcast_tx,
                           message_tx, timer>>

NextTailFaults == TailAppendPlain \/ TailTruncate \/ TailWakeAny

\* The tailer over a log that can shrink and reads that can fail.
SpecTailFaults == InitTail /\ [][NextTailFaults]_vars

SpecTail == InitTail /\ [][NextTail]_vars

(***************************************************************************)
(* Claims about the tailer.                                                *)
(***************************************************************************)
RECURSIVE Flatten(_)
Flatten(batches) ==
    IF batches = <<>> THEN <<>> ELSE Head(batches) \o Flatten(Tail(batches))

\* Every entry the tailer has sent: those applied and those in the channel.
Sent == applied \o Flatten(entries_rx["s1"])

\* The bytes read so far, cut at the newlines: the terminated lines and the
\* fragment after the last newline.
ReadBytes == SubSeq(file, 1, offset)
ByteLines == split_lines(ReadBytes)
Terminated == SubSeq(ByteLines, 1, Len(ByteLines) - 1)
Fragment == ByteLines[Len(ByteLines)]

RECURSIVE RecordsOf(_)
RecordsOf(byte_lines) ==
    IF byte_lines = <<>> THEN <<>>
    ELSE parse_jsonl_line(from_utf8_lossy(Head(byte_lines))) \o RecordsOf(Tail(byte_lines))

\* C5: the records of the newline-terminated lines read so far are the
\* entries given to handle_entries followed by those that wait in the
\* channel, each once and in file order; none is applied before the session
\* is tracked and each one applied has left its message in the session; the
\* fragment after the last newline is what remainder holds.
C5_EveryLineOnceInOrder ==
    /\ Sent = RecordsOf(Terminated)
    /\ remainder = from_utf8_lossy(Fragment)
    /\ "s1" \notin DOMAIN sessions => applied = <<>>
    /\ "s1" \in DOMAIN sessions => sessions["s1"].messages = MapAll(applied)

\* C6: whatever the chunks the reads have cut the bytes into, the entries
\* sent and the remainder kept are those of parsing the bytes in one piece.
C6_ChunkingInvisible ==
    LET whole == parse_jsonl_chunk(from_utf8_lossy(ReadBytes))
    IN  /\ Sent = whole.entries
        /\ remainder = whole.remainder


\* The step is a wake of the tailer.
Woken == woke'.bit # woke.bit

\* C24: a wake that finds the file missing, or no longer than the offset
\* (also after it was cut short), or whose metadata, open, seek or read
\* fails, leaves offset and remainder as they were and sends no batch, and
\* the watcher goes on running; and no wake ever lowers the offset.
C24_Step ==
    Woken =>
        /\ offset' >= offset
        /\ (woke'.fault # "none" \/ Len(file) <= offset) =>
               /\ offset' = offset
               /\ remainder' = remainder
               /\ entries_rx' = entries_rx
               /\ watchers'["s1"].running

C24_FailedWakeChangesNothing == [][C24_Step]_vars

\* The tailer has read part of the log and holds a fragment; the log was
\* then cut to below the offset, and the last wake changed nothing.
C24_Witness ==
    /\ woke.bit = 1
    /\ offset > 0
    /\ remainder # <<>>
    /\ Len(file) < offset

\* A read of the grown file failed after an earlier one had succeeded.
C24_WitnessReadError ==
    /\ woke.fault = "read_exact"
    /\ offset > 0
    /\ Len(file) > offset

(***************************************************************************)
(* strip_system_xml_tags on text cut into smaller pieces than Tokens: the  *)
(* "<" that opens a tag is a piece of its own, so that the text left and   *)
(* right of a removed range can join into an opening tag.  Two of the six  *)
(* tags stand for all, in the order of SYSTEM_XML_TAGS; a closing tag is   *)
(* one piece.  No pattern occurs in the text of the pieces other than as   *)
(* the pieces that spell it, so a search on pieces is a search on text.    *)
(***************************************************************************)
MaxPieces == 6

PieceTags == <<"command-name", "system-reminder">>

Pieces ==
    {"<", "command-name", "system-reminder", "</command-name>", "</system-reminder>",
     "y", " "}

\* format!("<{}", tag) and format!("</{}>", tag)
open_of(tag) == <<"<", tag>>
close_of(tag) ==
    IF tag = "command-name" THEN <<"</command-name>">> ELSE <<"</system-reminder>">>

\* str::find: the first position at which pat occurs in text, 0 for None.
find(text, pat) ==
    FirstAt({i \in 1..(Len(text) - Len(pat) + 1) : SubSeq(text, i, i + Len(pat) - 1) = pat})

\* strip_system_xml_tags, the loop for one tag.
RECURSIVE strip_loop(_, _)
strip_loop(result, tag) ==
    LET start == find(result, open_of(tag))
        end_offset == find(SubSeq(result, start, Len(result)), close_of(tag))
        end == start + end_offset - 1 + Len(close_of(tag))
    IN  IF start = 0 THEN result
        ELSE IF end_offset = 0 THEN result
        ELSE strip_loop(SubSeq(result, 1, start - 1) \o SubSeq(result, end, Len(result)), tag)

\* strip_system_xml_tags, "for tag in SYSTEM_XML_TAGS".
RECURSIVE strip_each(_, _)
strip_each(result, tags) ==
    IF tags = <<>> THEN result ELSE strip_each(strip_loop(result, Head(tags)), Tail(tags))

strip_pieces(text) == trim(strip_each(text, PieceTags))

\* A text is scrubbed, as extract_session_metadata and map_user_message do,
\* and what is left is scrubbed again.
InitStrip ==
    /\ now = T0
    /\ ctx = None
    /\ inp \in SeqsUpTo(Pieces, MaxPieces)
    /\ res = None
    /\ RegIdle /\ TailIdle /\ DiscIdle /\ ConnIdle /\ CtlIdle /\ CostIdle

Strip ==
    /\ res = None
    /\ res' = Some(strip_pieces(inp))
    /\ UNCHANGED <<now, ctx, inp, regVars, tailVars, discVars, ctlVars, costVars, connVars>>

StripAgain ==
    /\ res # None
    /\ inp' = res[1]
    /\ res' = None
    /\ UNCHANGED <<now, ctx, regVars, tailVars, discVars, ctlVars, costVars, connVars>>

NextStrip == Strip \/ StripAgain

SpecStrip == InitStrip /\ [][NextStrip]_vars

\* C34: scrubbing is idempotent: scrubbing a scrubbed text changes nothing.
C34_StripIdempotent == res # None => strip_pieces(res[1]) = res[1]

(***************************************************************************)
(* One WebSocket connection: ws_handler and handle_ws of server/ws.rs with *)
(* its two forwarding tasks, beside one session whose log is read, handled *)
(* and routed.  A text frame is held as the event it serializes.  The      *)
(* frames the client sends wait in ws_rx from the start and are read when  *)
(* the main loop turns to them.  The connection is not closed, and the     *)
(* broadcast channels (256 and 1024 events) never lag.                     *)
(***************************************************************************)
MaxFrames == 2

Subscribe(session_id) == [type |-> "Subscribe", session_id |-> session_id]
Unsubscribe(session_id) == [type |-> "Unsubscribe", session_id |-> session_id]

ClientFrames == {Subscribe("s1"), Unsubscribe("s1"), Subscribe("s2")}

SessionsInit(list) == [type |-> "SessionsInit", sessions |-> list]

SubUpdate(op, id) == [op |-> op, id |-> id]

\* Where the connection stands, and what its handler holds meanwhile.
WsAt(pc, held) == [pc |-> pc, held |-> held]

\* The client's end of the socket: whether it still reads, how many frames
\* wait in the socket for it, and whether it has left ("closed": a close
\* frame or the end of the stream; "reset": the socket fails).  None is a
\* client that reads every frame at once and stays.
Client(reading, unread, left) == [reading |-> reading, unread |-> unread, left |-> left]

\* The frames the socket holds before a send has to wait.
SocketBuffer == 1

\* ws_tx.send(..).await: it returns Ok once the socket takes the frame.
Writable == IF peer = None THEN TRUE ELSE peer.left # "reset" /\ peer.unread < SocketBuffer

\* ws_tx.send(..).await waits: the socket is full.
Full == IF peer = None THEN FALSE ELSE peer.left # "reset" /\ peer.unread >= SocketBuffer

\* The client's end once one more frame is in the socket.
Queued == IF peer = None THEN None ELSE [peer EXCEPT !.unread = @ + 1]

\* A forwarding task was spawned and has not left its loop.
Running(task) == fanout[task] = "running"

\* handle_ws has returned: client_rx, sub_update_tx and the socket are dropped.
Returned == ws_pc.pc = "closed"

InitConn(logs, frames, client) ==
    /\ now = T0
    /\ SMIdle /\ DiscIdle /\ TailIdle /\ CtlIdle /\ CostIdle
    /\ \E log_file \in logs :
           LET discovered == DiscoveredSession("s1", <<"-", "w", "-", "p1">>, log_file)
           IN  /\ sessions = ("s1" :> TrackedSession(discovered, T0))
               /\ watchers = ("s1" :> [file_path |-> log_file, pos |-> 0, running |-> TRUE])
    /\ known_sessions = {"s1"}
    /\ removed_ids = {}
    /\ discovery_rx = <<>>
    /\ dtask = [pc |-> "recv", d |-> None]
    /\ entries_rx = ("s1" :> <<>>)
    /\ consumers = {"s1"}
    /\ published = <<>> /\ routed = 0 /\ broadcast_tx = <<>> /\ message_tx = <<>>
    /\ timer = [probes |-> {}, answers |-> {}, exited |-> FALSE]
    /\ ws_pc = WsAt("listen", None)
    /\ ws_rx \in frames
    /\ subscribed = {} /\ sub_update_rx = <<>> /\ local_subs = {}
    /\ client_rx = <<>> /\ ws_tx = <<>>
    /\ broadcast_rx = 0 /\ message_rx = 0
    /\ peer = client
    /\ fanout = [broadcast |-> "none", message |-> "none"]

InitWs == InitConn(Logs, SeqsUpTo(ClientFrames, MaxFrames), None)

\* ws_handler: a client connects; the two receivers are subscribed.
WsUpgrade ==
    /\ ws_pc.pc = "listen"
    /\ broadcast_rx' = Len(broadcast_tx)
    /\ message_rx' = Len(message_tx)
    /\ ws_pc' = WsAt("upgraded", None)
    /\ UNCHANGED <<now, smVars, regVars, tailVars, discVars, ctlVars, costVars, peer, fanout,
                   ws_rx, subscribed, sub_update_rx, local_subs, client_rx, ws_tx>>

\* handle_ws: session_manager.get_sessions().
WsSnapshot ==
    /\ ws_pc.pc = "upgraded"
    /\ LockFree
    /\ ws_pc' = WsAt("init", get_sessions)
    /\ UNCHANGED <<now, smVars, regVars, tailVars, discVars, ctlVars, costVars, peer, fanout,
                   ws_rx, subscribed, sub_update_rx, local_subs, client_rx, ws_tx,
                   broadcast_rx, message_rx>>

\* handle_ws: the SessionsInit is sent on the socket, then the two tasks
\* are spawned and the main loop starts.
WsSendInit ==
    /\ ws_pc.pc = "init"
    /\ Writable
    /\ ws_tx' = Append(ws_tx, SessionsInit(ws_pc.held))
    /\ peer' = Queued
    /\ fanout' = [broadcast |-> "running", message |-> "running"]
    /\ ws_pc' = WsAt("open", None)
    /\ UNCHANGED <<now, smVars, regVars, tailVars, discVars, ctlVars, costVars, ws_rx, subscribed,
                   sub_update_rx, local_subs, client_rx, broadcast_rx, message_rx>>

\* The task that forwards broadcast events to the client.  It leaves its
\* loop when its send finds client_rx dropped.
ForwardBroadcast ==
    /\ Running("broadcast")
    /\ broadcast_rx < Len(broadcast_tx)
    /\ broadcast_rx' = broadcast_rx + 1
    /\ IF Returned
       THEN /\ fanout' = [fanout EXCEPT !.broadcast = "ended"]
            /\ UNCHANGED client_rx
       ELSE /\ client_rx' = Append(client_rx, broadcast_tx[broadcast_rx + 1])
            /\ UNCHANGED fanout
    /\ UNCHANGED <<now, smVars, regVars, tailVars, discVars, ctlVars, costVars, peer, ws_pc, ws_rx,
                   subscribed, sub_update_rx, local_subs, ws_tx, message_rx>>

\* The filter task, select! branch sub_update_rx.recv(): an update, or None
\* once sub_update_tx is dropped and the channel is empty.
FilterUpdate ==
    /\ Running("message")
    /\ IF sub_update_rx # <<>>
       THEN /\ sub_update_rx' = Tail(sub_update_rx)
            /\ local_subs' = IF Head(sub_update_rx).op = "Add"
                             THEN local_subs \cup {Head(sub_update_rx).id}
                             ELSE local_subs \ {Head(sub_update_rx).id}
            /\ UNCHANGED fanout
       ELSE /\ Returned
            /\ fanout' = [fanout EXCEPT !.message = "ended"]
            /\ UNCHANGED <<sub_update_rx, local_subs>>
    /\ UNCHANGED <<now, smVars, regVars, tailVars, discVars, ctlVars, costVars, peer, ws_pc, ws_rx,
                   subscribed, client_rx, ws_tx, broadcast_rx, message_rx>>

\* The filter task, select! branch message_rx.recv().  It leaves its loop
\* when its send finds client_rx dropped.
FilterMessage ==
    /\ Running("message")
    /\ message_rx < Len(message_tx)
    /\ message_rx' = message_rx + 1
    /\ LET event == message_tx[message_rx + 1]
           wanted == event.type = "NewMessage" /\ event.session_id \in local_subs
       IN  /\ client_rx' = IF wanted /\ ~Returned THEN Append(client_rx, event) ELSE client_rx
           /\ fanout' = IF wanted /\ Returned
                        THEN [fanout EXCEPT !.message = "ended"]
                        ELSE fanout
    /\ UNCHANGED <<now, smVars, regVars, tailVars, discVars, ctlVars, costVars, peer, ws_pc, ws_rx,
                   subscribed, sub_update_rx, local_subs, ws_tx, broadcast_rx>>

\* The main loop, select! branch client_rx.recv(): a queued frame is sent.
MainSend ==
    /\ ws_pc.pc = "open"
    /\ client_rx # <<>>
    /\ Writable
    /\ client_rx' = Tail(client_rx)
    /\ ws_tx' = Append(ws_tx, Head(client_rx))
    /\ peer' = Queued
    /\ UNCHANGED <<now, smVars, regVars, tailVars, discVars, ctlVars, costVars, fanout, ws_pc, ws_rx,
                   subscribed, sub_update_rx, local_subs, broadcast_rx, message_rx>>

\* The main loop, select! branch ws_rx.next(): a frame of the client.  On
\* Subscribe the handler goes on to get_session_messages and holds its
\* answer; the other tasks run while it does.
MainRecv ==
    /\ ws_pc.pc = "open"
    /\ ws_rx # <<>>
    /\ ws_rx' = Tail(ws_rx)
    /\ LET event == Head(ws_rx)
       IN  IF event.type = "Subscribe"
           THEN /\ LockFree
                /\ subscribed' = subscribed \cup {event.session_id}
                /\ sub_update_rx' = Append(sub_update_rx, SubUpdate("Add", event.session_id))
                /\ ws_pc' = WsAt("reply", [session_id |-> event.session_id,
                                           messages |-> get_session_messages(event.session_id)])
           ELSE /\ subscribed' = subscribed \ {event.session_id}
                /\ sub_update_rx' = Append(sub_update_rx,
                                           SubUpdate("Remove", event.session_id))
                /\ UNCHANGED ws_pc
    /\ UNCHANGED <<now, smVars, regVars, tailVars, discVars, ctlVars, costVars, peer, fanout,
                   local_subs, client_rx, ws_tx, broadcast_rx, message_rx>>

\* The Subscribe handler queues the MessagesInit, if it has any message to
\* send, and the main loop goes on.
SubscribeReply ==
    /\ ws_pc.pc = "reply"
    /\ client_rx' = client_rx \o messages_init(ws_pc.held.session_id, ws_pc.held.messages)
    /\ ws_pc' = WsAt("open", None)
    /\ UNCHANGED <<now, smVars, regVars, tailVars, discVars, ctlVars, costVars, peer, fanout,
                   ws_rx, subscribed, sub_update_rx, local_subs, ws_tx, broadcast_rx,
                   message_rx>>

NextWs ==
    \/ TailerRead
    \/ Consume
    \/ Route
    \/ WsUpgrade
    \/ WsSnapshot
    \/ WsSendInit
    \/ ForwardBroadcast
    \/ FilterUpdate
    \/ FilterMessage
    \/ MainSend
    \/ MainRecv
    \/ SubscribeReply

SpecWs == InitWs /\ [][NextWs]_vars

(***************************************************************************)
(* The same connection with a client that may stop reading and may leave.  *)
(* The main loop takes a queued frame and waits in ws_tx.send while the    *)
(* socket is full; it ends on a close frame, on the end of the stream and  *)
(* on a send that fails.  Nothing else ends it: handle_ws sets no timeout  *)
(* and sends no ping, and client_tx is an unbounded channel.               *)
(***************************************************************************)
\* The client reads one frame from the socket.
ClientRead ==
    /\ peer # None /\ peer.reading /\ peer.left = "no" /\ peer.unread > 0
    /\ peer' = [peer EXCEPT !.unread = @ - 1]
    /\ UNCHANGED <<now, smVars, regVars, tailVars, discVars, ctlVars, costVars, fanout, ws_pc,
                   ws_rx, subscribed, sub_update_rx, local_subs, client_rx, ws_tx,
                   broadcast_rx, message_rx>>

\* The client stops reading, for good, and keeps the connection.
ClientStall ==
    /\ peer # None /\ peer.reading /\ peer.left = "no"
    /\ peer' = [peer EXCEPT !.reading = FALSE]
    /\ UNCHANGED <<now, smVars, regVars, tailVars, discVars, ctlVars, costVars, fanout, ws_pc,
                   ws_rx, subscribed, sub_update_rx, local_subs, client_rx, ws_tx,
                   broadcast_rx, message_rx>>

\* The client leaves a connection whose main loop runs.
ClientLeave ==
    /\ peer # None /\ peer.left = "no"
    /\ ws_pc.pc \in {"open", "reply", "sending"}
    /\ \E how \in {"closed", "reset"} : peer' = [peer EXCEPT !.left = how]
    /\ UNCHANGED <<now, smVars, regVars, tailVars, discVars, ctlVars, costVars, fanout, ws_pc,
                   ws_rx, subscribed, sub_update_rx, local_subs, client_rx, ws_tx,
                   broadcast_rx, message_rx>>

\* The main loop, select! branch client_rx.recv(): the frame is taken from
\* the queue and ws_tx.send waits for the socket.
MainBlock ==
    /\ ws_pc.pc = "open"
    /\ client_rx # <<>>
    /\ Full
    /\ client_rx' = Tail(client_rx)
    /\ ws_pc' = WsAt("sending", Head(client_rx))
    /\ UNCHANGED <<now, smVars, regVars, tailVars, discVars, ctlVars, costVars, peer, fanout,
                   ws_rx, subscribed, sub_update_rx, local_subs, ws_tx, broadcast_rx,
                   message_rx>>

\* The socket has room again: the waiting send returns Ok.
MainUnblock ==
    /\ ws_pc.pc = "sending"
    /\ Writable
    /\ ws_tx' = Append(ws_tx, ws_pc.held)
    /\ peer' = Queued
    /\ ws_pc' = WsAt("open", None)
    /\ UNCHANGED <<now, smVars, regVars, tailVars, discVars, ctlVars, costVars, fanout, ws_rx,
                   subscribed, sub_update_rx, local_subs, client_rx, broadcast_rx, message_rx>>

\* ws_tx.send returns Err: the main loop breaks and handle_ws returns.
MainSendFail ==
    /\ peer # None /\ peer.left = "reset"
    /\ \/ ws_pc.pc = "sending"
       \/ ws_pc.pc = "open" /\ client_rx # <<>>
    /\ ws_pc' = WsAt("closed", None)
    /\ client_rx' = <<>>
    /\ UNCHANGED <<now, smVars, regVars, tailVars, discVars, ctlVars, costVars, peer, fanout,
                   ws_rx, subscribed, sub_update_rx, local_subs, ws_tx, broadcast_rx,
                   message_rx>>

\* The main loop, select! branch ws_rx.next(): a close frame or the end of
\* the stream, after the frames the client sent before; handle_ws returns.
MainEnd ==
    /\ ws_pc.pc = "open"
    /\ ws_rx = <<>>
    /\ peer # None /\ peer.left # "no"
    /\ ws_pc' = WsAt("closed", None)
    /\ client_rx' = <<>>
    /\ UNCHANGED <<now, smVars, regVars, tailVars, discVars, ctlVars, costVars, peer, fanout,
                   ws_rx, subscribed, sub_update_rx, local_subs, ws_tx, broadcast_rx,
                   message_rx>>

\* The log of one assistant turn of text, and a client that subscribes.
InitWsEnd ==
    InitConn({<<Assistant(<<"text">>, Some(Opus), Some(Usage1), Some(T0))>>},
             {<<Subscribe("s1")>>}, Client(TRUE, 0, "no"))

NextWsEnd ==
    \/ NextWs
    \/ ClientRead
    \/ ClientStall
    \/ ClientLeave
    \/ MainBlock
    \/ MainUnblock
    \/ MainSendFail
    \/ MainEnd

SpecWsEnd == InitWsEnd /\ [][NextWsEnd]_vars

\* The steps of the task that runs handle_ws, and of the filter task.
HandlerTask ==
    \/ WsUpgrade \/ WsSnapshot \/ WsSendInit
    \/ MainSend \/ MainRecv \/ SubscribeReply
    \/ MainBlock \/ MainUnblock \/ MainSendFail \/ MainEnd

FilterTask == FilterUpdate \/ FilterMessage

\* ENABLED <<Consume>>_vars, written out.
CanConsume == CanPublish /\ \E session_id \in consumers : CanHandle(session_id)

\* WF_vars(Consume), with its ENABLED written out.
ConsumeFair == <>[]CanConsume => []<><<Consume>>_vars

\* The runtime runs every task that can take a step: none of the tasks of
\* the server waits for ever while it has a step to take.  The client owes
\* nothing.
SpecWsEndFair ==
    /\ SpecWsEnd
    /\ WF_vars(TailerRead) /\ ConsumeFair /\ WF_vars(Route)
    /\ WF_vars(HandlerTask)
    /\ WF_vars(ForwardBroadcast)
    /\ WF_vars(FilterTask)

(***************************************************************************)
(* Claims about the connection.                                            *)
(***************************************************************************)
\* The frames a step sends to the client.
NewFrames == SubSeq(ws_tx', Len(ws_tx) + 1, Len(ws_tx'))

\* C18: a NewMessage frame for a session is sent to the client only while
\* the session is in the subscription set of the connection's read loop:
\* after its Subscribe has been processed and not after its Unsubscribe has.
C18_OnlyWhileSubscribed ==
    [][\A i \in 1..Len(NewFrames) :
           NewFrames[i].type = "NewMessage" => NewFrames[i].session_id \in subscribed
    ]_vars

\* The steps of the Subscribe handler: it takes the snapshot for
\* session_id, and later queues its reply.
SnapshotTaken(session_id) ==
    /\ ws_pc.pc = "open" /\ ws_pc'.pc = "reply"
    /\ ws_pc'.held.session_id = session_id

Replied(session_id) ==
    /\ ws_pc.pc = "reply" /\ ws_pc'.pc = "open"
    /\ ws_pc.held.session_id = session_id

\* The NewMessage frames for session_id among frames carry only messages
\* of the list messages.
AllWithin(frames, session_id, messages) ==
    \A i \in 1..Len(frames) :
        (frames[i].type = "NewMessage" /\ frames[i].session_id = session_id) =>
            \E k \in 1..Len(messages) : messages[k] = frames[i].payload[1]

\* A Subscribe for a tracked session queues a MessagesInit after every frame
\* queued so far, and no NewMessage of the session sent or queued before it
\* carries a message the snapshot lacks.
InitQueuedInOrder(session_id) ==
    (Replied(session_id) /\ ws_pc.held.messages # None) =>
        /\ Len(client_rx') = Len(client_rx) + 1
        /\ client_rx'[Len(client_rx')].type = "MessagesInit"
        /\ AllWithin(ws_tx \o client_rx, session_id, ws_pc.held.messages[1])

\* C19: processing Subscribe{s} for a tracked session s queues exactly one
\* MessagesInit for s, whose messages are the session's list at the moment
\* of the snapshot (at most 500), whatever the length of the list, and
\* queues it before any NewMessage for s published after the snapshot.
C19_Step ==
    \A session_id \in SessionIds :
        /\ (SnapshotTaken(session_id) /\ session_id \in DOMAIN sessions) =>
               /\ ws_pc'.held.messages = Some(sessions[session_id].messages)
               /\ Len(sessions[session_id].messages) <= MessagesCap
        /\ (Replied(session_id) /\ ws_pc.held.messages # None) =>
               client_rx' = Append(client_rx,
                                   [type |-> "MessagesInit", session_id |-> session_id,
                                    messages |-> ws_pc.held.messages[1]])
        /\ InitQueuedInOrder(session_id)

C19_MessagesInitOnSubscribe == [][C19_Step]_vars

\* A connection whose client subscribes to s1, beside a session whose log
\* holds two turns of text.
InitSub ==
    InitConn({<<Assistant(<<"text">>, Some(Opus), Some(Usage1), Some(T0)),
                Assistant(<<"text">>, Some(Sonnet), Some(Usage1), Some(T0))>>},
             {<<Subscribe("s1")>>, <<Unsubscribe("s1"), Subscribe("s1")>>}, None)

SpecSub == InitSub /\ [][NextWs]_vars

\* Nothing is on its way to the client: the log is read and handled, every
\* event is routed and forwarded, every frame of the client is processed and
\* every queued frame is sent.
Settled ==
    /\ ws_pc.pc = "open" /\ ws_rx = <<>> /\ sub_update_rx = <<>> /\ client_rx = <<>>
    /\ \A id \in DOMAIN watchers :
           watchers[id].pos = Len(watchers[id].file_path) /\ entries_rx[id] = <<>>
    /\ routed = Len(published)
    /\ broadcast_rx = Len(broadcast_tx) /\ message_rx = Len(message_tx)

\* The client was told of the session in its SessionsInit: the session was
\* emitted before the connection read any frame.
ListedAtConnect(session_id) ==
    /\ ws_tx # <<>>
    /\ \E summary \in ws_tx[1].sessions : summary.session_id = session_id

\* The frames sent carry message for session_id, in a MessagesInit or as a
\* NewMessage.
Delivered(session_id, message) ==
    \E i \in 1..Len(ws_tx) :
        IF ws_tx[i].type = "NewMessage"
        THEN ws_tx[i].session_id = session_id /\ ws_tx[i].payload[1] = message
        ELSE IF ws_tx[i].type = "MessagesInit"
        THEN /\ ws_tx[i].session_id = session_id
             /\ \E k \in 1..Len(ws_tx[i].messages) : ws_tx[i].messages[k] = message
        ELSE FALSE

\* C39: once a connection has processed Subscribe{s} for an emitted session
\* s and everything on its way has arrived, every message of s has been
\* sent to it, inside a MessagesInit or as a NewMessage.
C39_NoMessageLost ==
    \A session_id \in subscribed :
        (Settled /\ ListedAtConnect(session_id) /\ session_id \in DOMAIN sessions) =>
            \A k \in 1..Len(sessions[session_id].messages) :
                Delivered(session_id, sessions[session_id].messages[k])

\* C20: the first frame a connection sends is its SessionsInit and it
\* sends no other; nothing is sent or queued before it; once the main loop
\* runs it has been sent; and the list it carries is the set of the
\* summaries of the sessions that are emitted when the snapshot is taken.
C20_Frames ==
    /\ ws_pc.pc \in {"listen", "upgraded", "init"} => ws_tx = <<>> /\ client_rx = <<>>
    /\ ws_pc.pc \in {"open", "reply"} => ws_tx # <<>>
    /\ ws_tx # <<>> => ws_tx[1].type = "SessionsInit"
    /\ \A i \in 2..Len(ws_tx) : ws_tx[i].type # "SessionsInit"
    /\ \A i \in 1..Len(client_rx) : client_rx[i].type # "SessionsInit"

C20_Step ==
    /\ (ws_pc.pc = "upgraded" /\ ws_pc'.pc = "init") =>
           ws_pc'.held = {sessions[id].summary :
                              id \in {i \in DOMAIN sessions : sessions[i].emitted}}
    /\ (ws_pc.pc = "init" /\ ws_pc'.pc = "open") =>
           ws_tx' = <<SessionsInit(ws_pc.held)>>

C20_SessionsInitFirst == []C20_Frames /\ [][C20_Step]_vars

\* The client has received the SessionsInit with the emitted session in
\* it, and then other frames.
C20_Witness ==
    /\ Len(ws_tx) >= 2
    /\ ws_tx[1].type = "SessionsInit"
    /\ ws_tx[1].sessions # {}

(***************************************************************************)
(* Claims about a client that stalls or leaves.                            *)
(***************************************************************************)
\* The frames that wait in client_rx for the queue to count as grown.
Backlog == 2

\* The client has stopped reading and keeps the connection; the socket is
\* full, the main loop waits in ws_tx.send, and frames pile up in client_rx.
Backlogged ==
    /\ ws_pc.pc = "sending"
    /\ ~peer.reading /\ peer.left = "no"
    /\ Len(client_rx) >= Backlog

\* C29: when the frames queued for a client pile up because the client
\* does not read them, the connection is closed in the end (unless the
\* client leaves by itself first).
C29_BackloggedIsClosed == Backlogged ~> (Returned \/ peer.left # "no")

\* C30: once the main loop of a connection has ended, both of its
\* forwarding tasks, the broadcast forwarder and the message filter, leave
\* their loops in the end, whether or not another event is published.
C30_FanoutTasksEnd == Returned ~> (~Running("broadcast") /\ ~Running("message"))

(***************************************************************************)
(* Discovery: session_discovery.rs over the log root.  A log is named by   *)
(* its session id (the file name without ".jsonl"), lies in one project    *)
(* directory and is fresh when modified within the last 24 hours.  With    *)
(* two logs every order of read_dir is a walk directory by directory.      *)
(***************************************************************************)
LogFile(dir_name, fresh) == [dir_name |-> dir_name, log_file |-> <<>>, fresh |-> fresh]

\* scan_all_inner, the two loops: acc = [known |-> known_sessions, sent |->
\* the events sent on tx].
RECURSIVE scan_all_inner(_, _)
scan_all_inner(acc, order) ==
    IF order = <<>> THEN acc
    ELSE LET session_id == Head(order)
             entry == log_root[session_id]
         IN  IF ~entry.fresh \/ session_id \in acc.known
             THEN scan_all_inner(acc, Tail(order))
             ELSE scan_all_inner(
                      [known |-> acc.known \cup {session_id},
                       sent |-> Append(acc.sent,
                                       Found(DiscoveredSession(session_id, entry.dir_name,
                                                               entry.log_file)))],
                      Tail(order))

InitDisc ==
    /\ now = T0
    /\ SMIdle /\ RegIdle /\ TailIdle /\ ConnIdle /\ CtlIdle /\ CostIdle
    /\ log_root = <<>>

\* An agent creates a log, or appends to one that exists.
LogWritten ==
    \E session_id \in SessionIds, dir_name \in Dirs :
        /\ log_root' = IF session_id \in DOMAIN log_root
                       THEN [log_root EXCEPT ![session_id].fresh = TRUE]
                       ELSE log_root @@ (session_id :> LogFile(dir_name, TRUE))
        /\ UNCHANGED <<now, smVars, regVars, tailVars, connVars, ctlVars, costVars>>

\* A log has not been modified for more than 24 hours.
LogAged ==
    \E session_id \in DOMAIN log_root :
        /\ log_root[session_id].fresh
        /\ log_root' = [log_root EXCEPT ![session_id].fresh = FALSE]
        /\ UNCHANGED <<now, smVars, regVars, tailVars, connVars, ctlVars, costVars>>

\* A log is deleted from the log root.
LogDeleted ==
    \E session_id \in DOMAIN log_root :
        /\ log_root' = [id \in DOMAIN log_root \ {session_id} |-> log_root[id]]
        /\ UNCHANGED <<now, smVars, regVars, tailVars, connVars, ctlVars, costVars>>

\* The initial scan, or a 5 s tick of the scan loop: scan_all_inner.
Scan ==
    \E order \in Orders(DOMAIN log_root) :
        LET r == scan_all_inner([known |-> known_sessions, sent |-> <<>>], order)
        IN  /\ known_sessions' = r.known
            /\ discovery_rx' = discovery_rx \o r.sent
            /\ UNCHANGED <<now, smVars, tailVars, discVars, ctlVars, costVars, connVars, sessions, removed_ids,
                           dtask, watchers, entries_rx, consumers, published, routed,
                           broadcast_tx, message_tx, timer>>

NextDisc == LogWritten \/ LogAged \/ LogDeleted \/ Scan

SpecDisc == InitDisc /\ [][NextDisc]_vars

\* The interval of SessionDiscovery::start ticks for ever: a scan that can
\* find something is run.
SpecDiscFair == SpecDisc /\ WF_vars(Scan)

(***************************************************************************)
(* Claims about discovery.                                                 *)
(***************************************************************************)
FoundSent(session_id) ==
    \E i \in 1..Len(discovery_rx) :
        discovery_rx[i].type = "Found" /\ discovery_rx[i].session_id = session_id

RemovedSent(session_id) ==
    \E i \in 1..Len(discovery_rx) :
        discovery_rx[i].type = "Removed" /\ discovery_rx[i].session_id = session_id

\* C15: a session that discovery has reported with Found and whose log is
\* from some point on absent from the log root for ever is eventually
\* reported with Removed.
C15_RemovedEventually ==
    \A session_id \in SessionIds :
        <>[](FoundSent(session_id) /\ session_id \notin DOMAIN log_root)
            => <>RemovedSent(session_id)
=============================================================================
